---- MODULE Spec2Model ----
(***************************************************************************)
(* Model of the voice-detection / call-analysis backend:                   *)
(*   backend/utils/fraud_detector.py   FraudDetector                       *)
(*   backend/app.py                    startup, detect_voice, analyze_call *)
(*   backend/models/audio_classifier.py VoiceDetectionModel                *)
(*   backend/utils/audio_processor.py  AudioProcessor                      *)
(*   backend/models/feature_extractor.py AudioFeatureExtractor             *)
(*                                                                         *)
(* Real numbers are kept in fixed point: a score of one point is the       *)
(* integer ONE, so every product the code forms (x*0.5, x*0.2, x*0.3,      *)
(* x*1.3, x*0.02, a mean over 5 or 10 entries) is exact for integer        *)
(* feature entries and probabilities given in thousandths.                 *)
(***************************************************************************)
EXTENDS Integers, Sequences, FiniteSets, TLC

VARIABLES
    \* ---- FraudDetector instance (fraud_detector.py:10-25)
    weights,            \* self.weights, in tenths
    keywords,           \* self.keywords, the suspicious-term table
    \* ---- one caller of FraudDetector.analyze_risk and the objects it passes
    ai_confidence,      \* thousandths
    audio_features,     \* the feature object (passed by reference)
    keywords_detected,  \* [given, list]: the keyword list (by reference)
    risk,               \* what the latest call on these arguments returned
    first_risk,         \* what the first call on these arguments returned
    locals,             \* the locals of the latest call (ai_risk, total_risk ...)
    history,            \* the calls made so far, "own" or "other" arguments
    level_call,         \* a direct call of _get_risk_level: [score, called, level]
    \* ---- the service (app.py)
    checkpoint,         \* the file at MODEL_PATH, as start-up finds it
    startup,            \* where the import of app.py stands
    loading,            \* the VoiceDetectionModel under construction
    voice_model,        \* the module global voice_model
    disk,               \* the temporary WAV files that exist
    clients,            \* the request slots in use
    req,                \* per slot: the request being served and its locals
    \* ---- direct callers of the components
    validation,         \* a call of AudioProcessor.validate_audio
    decoding,           \* a call of AudioProcessor.decode_base64_to_audio
    extraction,         \* a call of AudioFeatureExtractor.extract_features
    prediction          \* a call of VoiceDetectionModel.predict

riskVars == <<ai_confidence, audio_features, keywords_detected, risk,
              first_risk, locals, history, level_call>>
detectorVars == <<weights, keywords>>
serviceVars == <<checkpoint, startup, loading, voice_model, disk, clients, req>>
componentVars == <<validation, decoding, extraction, prediction>>
vars == <<weights, keywords, ai_confidence, audio_features, keywords_detected,
          risk, first_risk, locals, history, level_call,
          checkpoint, startup, loading, voice_model, disk, clients, req,
          validation, decoding, extraction, prediction>>

----------------------------------------------------------------------------
(* Bounds of the model *)

MaxHits == 5        \* longest keyword list passed to analyze_risk
MaxEnergy == 250    \* largest entry of the energy block
MaxCalls == 3       \* calls of analyze_risk one caller makes
MaxRequests == 2    \* requests served one after the other in one slot
MaxOverlapping == 1 \* requests per slot while two slots are served at once

----------------------------------------------------------------------------
(* Fixed point *)

ONE == 10^5

Min(a, b) == IF a < b THEN a ELSE b
Max(a, b) == IF a > b THEN a ELSE b

\* round(x, 1): x in units of 1/ONE, the result in tenths of a point;
\* a tie goes to the even tenth.
round1(x) ==
    LET t == ONE \div 10
        q == x \div t
        r == x % t
    IN  IF 2 * r > t THEN q + 1
        ELSE IF 2 * r < t THEN q
        ELSE IF q % 2 = 0 THEN q ELSE q + 1

----------------------------------------------------------------------------
(* Feature objects.  data is indexed from 0 as in Python; nan and nonnum   *)
(* are the positions holding NaN and entries that are no numbers.          *)

FeatureLen == 425

NoneFeatures ==
    [type |-> "NoneType", data |-> [i \in {} |-> 0], nan |-> {}, nonnum |-> {}]

\* an array of n entries: spectral block <<c, d, d, d, d>> at 40..44,
\* energy block <<a, b, ..., b>> at 280..289, zero elsewhere
MkFeatures(n, a, b, c, d, nanAt, strAt) ==
    [type |-> "ndarray",
     data |-> [i \in 0..(n - 1) |->
                  IF i = 280 THEN a
                  ELSE IF i \in 281..289 THEN b
                  ELSE IF i = 40 THEN c
                  ELSE IF i \in 41..44 THEN d
                  ELSE 0],
     nan |-> nanAt \cap (0..(n - 1)),
     nonnum |-> strAt \cap (0..(n - 1))]

len(features) == Cardinality(DOMAIN features.data)

RECURSIVE SumOver(_, _)
SumOver(data, S) ==
    IF S = {} THEN 0
    ELSE LET i == CHOOSE j \in S : TRUE
         IN  data[i] + SumOver(data, S \ {i})

\* np.mean(features[lo:hi])
np_mean(features, lo, hi) ==
    LET idx == lo..(Min(hi, len(features)) - 1)
    IN  IF idx \cap features.nonnum # {}
        THEN [raises |-> TRUE, nan |-> FALSE, val |-> 0]
        ELSE IF idx = {} \/ idx \cap features.nan # {}
        THEN [raises |-> FALSE, nan |-> TRUE, val |-> 0]
        ELSE [raises |-> FALSE, nan |-> FALSE,
              val |-> (SumOver(features.data, idx) * ONE) \div Cardinality(idx)]

Half == [raises |-> FALSE, nan |-> FALSE, val |-> ONE \div 2]

----------------------------------------------------------------------------
(* FraudDetector *)

FraudDetector_init ==
    [weights |-> [ai_score |-> 5, urgency |-> 2, keywords |-> 3],
     keywords |-> <<"password", "otp", "credit card", "debit card", "cvv",
                    "social security", "ssn", "bank account", "refund",
                    "verify", "urgent", "blocked", "expiry">>]

\* the body of the try block of _detect_urgency, before min/max
urgency_try(features) ==
    IF features.type = "NoneType"
    THEN [raises |-> TRUE, nan |-> FALSE, val |-> 0]      \* len(None)
    ELSE LET energy_mean == IF len(features) > 290
                            THEN np_mean(features, 280, 290) ELSE Half
             spectral_mean == IF len(features) > 45
                              THEN np_mean(features, 40, 45) ELSE Half
         IN  [raises |-> energy_mean.raises \/ spectral_mean.raises,
              nan |-> energy_mean.nan \/ spectral_mean.nan,
              val |-> (energy_mean.val * 5) \div 10
                      + (spectral_mean.val * 2) \div 100]

\* min(100, max(0, urgency)); a NaN loses both comparisons, leaving 0
clamp_urgency(u) ==
    IF u.nan THEN 0 ELSE Min(100 * ONE, Max(0, u.val))

_detect_urgency_no_clamp(features) ==
    LET u == urgency_try(features)
    IN  IF u.raises THEN [raised |-> FALSE, value |-> 50 * ONE]
        ELSE [raised |-> FALSE, value |-> IF u.nan THEN 0 ELSE u.val]

_detect_urgency_no_except(features) ==
    LET u == urgency_try(features)
    IN  IF u.raises THEN [raised |-> TRUE, value |-> 0]
        ELSE [raised |-> FALSE, value |-> clamp_urgency(u)]

_detect_urgency(features) ==
    LET u == urgency_try(features)
    IN  IF u.raises THEN [raised |-> FALSE, value |-> 50 * ONE]
        ELSE [raised |-> FALSE, value |-> clamp_urgency(u)]

_get_risk_level_inclusive(score) ==
    IF score >= 75 * ONE THEN "CRITICAL"
    ELSE IF score >= 50 * ONE THEN "HIGH"
    ELSE IF score >= 25 * ONE THEN "MEDIUM"
    ELSE "LOW"

_get_risk_level(score) ==
    IF score > 75 * ONE THEN "CRITICAL"
    ELSE IF score > 50 * ONE THEN "HIGH"
    ELSE IF score > 25 * ONE THEN "MEDIUM"
    ELSE "LOW"

\* ", ".join(keywords)
RECURSIVE join(_)
join(kws) ==
    IF Len(kws) = 0 THEN ""
    ELSE IF Len(kws) = 1 THEN kws[1]
    ELSE kws[1] \o ", " \o join(Tail(kws))

RobocallAlert == "HIGH RISK: Synthetic voice detected (Robocall)"
PressureAlert == "THREAT: High urgency/pressure speech pattern detected"
KeywordAlertPrefix == "SECURITY ALERT: Suspicious keywords detected: "
LowRiskAlert == "Low Risk: Natural conversation detected"

_generate_alerts_always_reassure(ai_risk, urgency, kws) ==
    LET a1 == IF ai_risk > 85 * ONE THEN <<RobocallAlert>> ELSE <<>>
        a2 == IF urgency > 75 * ONE THEN Append(a1, PressureAlert) ELSE a1
        a3 == IF Len(kws) > 0
              THEN Append(a2, KeywordAlertPrefix \o join(kws)) ELSE a2
    IN  IF ai_risk < 20 * ONE THEN Append(a3, LowRiskAlert) ELSE a3

\* _generate_alerts with the reassurance given whenever no alert fired
_generate_alerts_reassure_when_silent(ai_risk, urgency, kws) ==
    LET a1 == IF ai_risk > 85 * ONE THEN <<RobocallAlert>> ELSE <<>>
        a2 == IF urgency > 75 * ONE THEN Append(a1, PressureAlert) ELSE a1
        a3 == IF Len(kws) > 0
              THEN Append(a2, KeywordAlertPrefix \o join(kws)) ELSE a2
    IN  IF Len(a3) = 0 THEN Append(a3, LowRiskAlert) ELSE a3

_generate_alerts(ai_risk, urgency, kws) ==
    LET a1 == IF ai_risk > 85 * ONE THEN <<RobocallAlert>> ELSE <<>>
        a2 == IF urgency > 75 * ONE THEN Append(a1, PressureAlert) ELSE a1
        a3 == IF Len(kws) > 0
              THEN Append(a2, KeywordAlertPrefix \o join(kws)) ELSE a2
    IN  IF Len(a3) = 0 /\ ai_risk < 20 * ONE
        THEN Append(a3, LowRiskAlert) ELSE a3

\* line 49
keyword_risk_uncapped(kws) == Len(kws) * 25 * ONE

keyword_risk_of(kws) == Min(100 * ONE, Len(kws) * 25 * ONE)

\* line 59: the condition of the boost
boost_on_keywords_alone(kws, ai_risk, urgency_score) ==
    Len(kws) > 0 \/ (ai_risk > 50 * ONE \/ urgency_score > 60 * ONE)

\* the condition of the boost without its keyword test
boost_without_keywords(kws, ai_risk, urgency_score) ==
    ai_risk > 50 * ONE \/ urgency_score > 60 * ONE

boost_applies(kws, ai_risk, urgency_score) ==
    Len(kws) > 0 /\ (ai_risk > 50 * ONE \/ urgency_score > 60 * ONE)

NoAssessment ==
    [risk_score |-> 0, risk_level |-> "",
     metrics |-> [ai_probability |-> 0, urgency_score |-> 0, keyword_risk |-> 0],
     alerts |-> <<>>]

NoLocals ==
    [ai_risk |-> 0, urgency_score |-> 0, keyword_risk |-> 0,
     weighted |-> 0, total_risk |-> 0]

\* analyze_risk(self, ai_confidence, audio_features, keywords_detected):
\* what it returns (or that it raised), its locals, and the objects it was
\* handed as the call leaves them.  kwarg is [given, list]; an omitted list
\* is replaced by a fresh [] (lines 39-40).
analyze_risk_rebalances(self, conf, features, kwarg) ==
    LET kws == IF kwarg.given THEN kwarg.list ELSE <<>>
        ai_risk == conf * 100 * (ONE \div 1000)
        urg == _detect_urgency(features)
        urgency_score == urg.value
        keyword_risk == keyword_risk_of(kws)
        weighted == (ai_risk * self.weights.ai_score) \div 10
                    + (urgency_score * self.weights.urgency) \div 10
                    + (keyword_risk * self.weights.keywords) \div 10
        boosted == boost_applies(kws, ai_risk, urgency_score)
        total_risk == IF boosted
                      THEN Min(100 * ONE, (weighted * 13) \div 10)
                      ELSE weighted
    IN  [raised |-> urg.raised,
         ret |-> IF urg.raised THEN NoAssessment
                 ELSE [risk_score |-> round1(total_risk),
                       risk_level |-> _get_risk_level(total_risk),
                       metrics |-> [ai_probability |-> round1(conf * 100 * (ONE \div 1000)),
                                    urgency_score |-> round1(urgency_score),
                                    keyword_risk |-> round1(keyword_risk)],
                       alerts |-> _generate_alerts(ai_risk, urgency_score, kws)],
         locals |-> IF urg.raised THEN NoLocals
                    ELSE [ai_risk |-> ai_risk, urgency_score |-> urgency_score,
                          keyword_risk |-> keyword_risk, weighted |-> weighted,
                          total_risk |-> total_risk],
         self |-> IF boosted
                  THEN [self EXCEPT !.weights.keywords = 4, !.weights.ai_score = 4]
                  ELSE self,
         audio_features |-> features,
         keywords_detected |-> kwarg]

\* analyze_risk with the level taken from the rounded score
analyze_risk_level_of_score(self, conf, features, kwarg) ==
    LET kws == IF kwarg.given THEN kwarg.list ELSE <<>>
        ai_risk == conf * 100 * (ONE \div 1000)
        urg == _detect_urgency(features)
        urgency_score == urg.value
        keyword_risk == keyword_risk_of(kws)
        weighted == (ai_risk * self.weights.ai_score) \div 10
                    + (urgency_score * self.weights.urgency) \div 10
                    + (keyword_risk * self.weights.keywords) \div 10
        total_risk == IF boost_applies(kws, ai_risk, urgency_score)
                      THEN Min(100 * ONE, (weighted * 13) \div 10)
                      ELSE weighted
    IN  [raised |-> urg.raised,
         ret |-> IF urg.raised THEN NoAssessment
                 ELSE [risk_score |-> round1(total_risk),
                       risk_level |-> _get_risk_level(round1(total_risk) * (ONE \div 10)),
                       metrics |-> [ai_probability |-> round1(conf * 100 * (ONE \div 1000)),
                                    urgency_score |-> round1(urgency_score),
                                    keyword_risk |-> round1(keyword_risk)],
                       alerts |-> _generate_alerts(ai_risk, urgency_score, kws)],
         locals |-> IF urg.raised THEN NoLocals
                    ELSE [ai_risk |-> ai_risk, urgency_score |-> urgency_score,
                          keyword_risk |-> keyword_risk, weighted |-> weighted,
                          total_risk |-> total_risk],
         self |-> self,
         audio_features |-> features,
         keywords_detected |-> kwarg]

analyze_risk(self, conf, features, kwarg) ==
    LET kws == IF kwarg.given THEN kwarg.list ELSE <<>>
        ai_risk == conf * 100 * (ONE \div 1000)
        urg == _detect_urgency(features)
        urgency_score == urg.value
        keyword_risk == keyword_risk_of(kws)
        weighted == (ai_risk * self.weights.ai_score) \div 10
                    + (urgency_score * self.weights.urgency) \div 10
                    + (keyword_risk * self.weights.keywords) \div 10
        total_risk == IF boost_applies(kws, ai_risk, urgency_score)
                      THEN Min(100 * ONE, (weighted * 13) \div 10)
                      ELSE weighted
    IN  [raised |-> urg.raised,
         ret |-> IF urg.raised THEN NoAssessment
                 ELSE [risk_score |-> round1(total_risk),
                       risk_level |-> _get_risk_level(total_risk),
                       metrics |-> [ai_probability |-> round1(conf * 100 * (ONE \div 1000)),
                                    urgency_score |-> round1(urgency_score),
                                    keyword_risk |-> round1(keyword_risk)],
                       alerts |-> _generate_alerts(ai_risk, urgency_score, kws)],
         locals |-> IF urg.raised THEN NoLocals
                    ELSE [ai_risk |-> ai_risk, urgency_score |-> urgency_score,
                          keyword_risk |-> keyword_risk, weighted |-> weighted,
                          total_risk |-> total_risk],
         self |-> self,
         audio_features |-> features,
         keywords_detected |-> kwarg]

----------------------------------------------------------------------------
(* AudioProcessor (audio_processor.py).  An audio buffer is known by its   *)
(* number of samples n.                                                    *)

SampleRate == 16000
MaxLengthSeconds == 30

\* the decoders of decode_base64_to_audio in the order of the nested try
\* blocks (lines 40-69): four pydub loaders, then librosa.load on the bytes
Strategies == <<"MP3", "WAV", "WebM", "Auto-detect", "Librosa">>

\* str(e) of the exception a decoder fails with
FailureMessage(s) ==
    IF s = "Librosa" THEN "Format not recognised"
    ELSE "Decoding failed. ffmpeg returned error code: 1"

RECURSIVE join_errors(_)
join_errors(errors) ==
    IF Len(errors) = 0 THEN ""
    ELSE IF Len(errors) = 1 THEN errors[1]
    ELSE errors[1] \o ", " \o join_errors(Tail(errors))

\* the chain that goes on to the later decoders after one has succeeded
RECURSIVE try_strategies_exhaustive(_, _)
try_strategies_exhaustive(works, i) ==
    IF i > Len(Strategies)
    THEN [attempted |-> <<>>, errors |-> <<>>, winner |-> "None"]
    ELSE LET rest == try_strategies_exhaustive(works, i + 1)
         IN  IF Strategies[i] \in works
             THEN [attempted |-> <<Strategies[i]>> \o rest.attempted,
                   errors |-> rest.errors,
                   winner |-> IF rest.winner = "None" THEN Strategies[i]
                              ELSE rest.winner]
             ELSE [attempted |-> <<Strategies[i]>> \o rest.attempted,
                   errors |-> <<Strategies[i] \o ": " \o FailureMessage(Strategies[i])>>
                              \o rest.errors,
                   winner |-> rest.winner]

\* lines 40-69 from decoder i on: decoder i is tried; the next one is tried
\* in its except clause only.  works is the set of decoders that can read
\* the bytes.
RECURSIVE try_strategies(_, _)
try_strategies(works, i) ==
    IF i > Len(Strategies)
    THEN [attempted |-> <<>>, errors |-> <<>>, winner |-> "None"]
    ELSE IF Strategies[i] \in works
    THEN [attempted |-> <<Strategies[i]>>, errors |-> <<>>, winner |-> Strategies[i]]
    ELSE LET rest == try_strategies(works, i + 1)
         IN  [attempted |-> <<Strategies[i]>> \o rest.attempted,
              errors |-> <<Strategies[i] \o ": " \o FailureMessage(Strategies[i])>>
                         \o rest.errors,
              winner |-> rest.winner]

\* decode_base64_to_audio(audio_base64), lines 32-93.  bytes tells what the
\* libraries make of the input: b64_ok (base64.b64decode), works (see
\* above), export_ok (the WAV export and the reload), n (samples loaded).
\* Every exception leaves through the outer except clause as one ValueError.
\* The librosa decoder returns from inside the chain, past the empty test.
decode_base64_to_audio(bytes) ==
    LET chain == try_strategies(bytes.works, 1)
        Fail(msg) == [raised |-> TRUE,
                      detail |-> "Error processing audio: " \o msg,
                      audio |-> [decoded |-> FALSE, n |-> 0],
                      attempted |-> IF bytes.b64_ok THEN chain.attempted ELSE <<>>,
                      errors |-> IF bytes.b64_ok THEN chain.errors ELSE <<>>]
        Ok == [raised |-> FALSE, detail |-> "",
               audio |-> [decoded |-> TRUE, n |-> bytes.n],
               attempted |-> chain.attempted, errors |-> chain.errors]
    IN  IF ~bytes.b64_ok THEN Fail("Incorrect padding")
        ELSE IF chain.winner = "Librosa" THEN Ok
        ELSE IF chain.winner = "None"
        THEN Fail("Could not decode audio. Tried formats: "
                  \o join_errors(chain.errors))
        ELSE IF ~bytes.export_ok THEN Fail("Error opening wav_io")
        ELSE IF bytes.n = 0 THEN Fail("Decoded audio is empty")
        ELSE Ok

\* validate_audio with the length test written >=: a buffer of exactly
\* max_length seconds is turned away
validate_audio_exclusive(audio, max_length) ==
    IF audio.n = 0
    THEN [raised |-> TRUE, detail |-> "Audio is empty", ret |-> FALSE, audio |-> audio]
    ELSE IF audio.n >= max_length * SampleRate
    THEN [raised |-> TRUE, detail |-> "Audio too long", ret |-> FALSE, audio |-> audio]
    ELSE [raised |-> FALSE, detail |-> "", ret |-> TRUE, audio |-> audio]

\* validate_audio(audio, max_length): True, or the ValueError it raises.
\* duration = len(audio) / 16000 is a float quotient of two integers, so
\* duration > max_length exactly when len(audio) > max_length * 16000.
\* The array is only measured: audio is the buffer as the call leaves it.
validate_audio(audio, max_length) ==
    IF audio.n = 0
    THEN [raised |-> TRUE, detail |-> "Audio is empty", ret |-> FALSE, audio |-> audio]
    ELSE IF audio.n > max_length * SampleRate        \* len(audio) / 16000 > max_length
    THEN [raised |-> TRUE, detail |-> "Audio too long", ret |-> FALSE, audio |-> audio]
    ELSE [raised |-> FALSE, detail |-> "", ret |-> TRUE, audio |-> audio]

\* save_temp_wav(audio_data): np.max of an empty array raises before the
\* file is made; sf.write may raise after mkstemp has made it
save_temp_wav(audio, write_ok) ==
    IF audio.n = 0
    THEN [raised |-> TRUE, created |-> FALSE,
          detail |-> "zero-size array to reduction operation maximum"]
    ELSE IF ~write_ok
    THEN [raised |-> TRUE, created |-> TRUE, detail |-> "Error opening file"]
    ELSE [raised |-> FALSE, created |-> TRUE, detail |-> ""]

----------------------------------------------------------------------------
(* FraudDetector.detect_keywords.  What the recogniser does with the file  *)
(* is asr: the words it heard, or the way it failed.                       *)

\* str.lower() on the words of the transcripts below
Lower(w) ==
    CASE w = "OTP" -> "otp"
      [] w = "Password" -> "password"
      [] w = "Verify" -> "verify"
      [] OTHER -> w

RECURSIVE join_words(_)
join_words(ws) ==
    IF Len(ws) = 0 THEN ""
    ELSE IF Len(ws) = 1 THEN ws[1]
    ELSE ws[1] \o " " \o join_words(Tail(ws))

Transcripts ==
    {<<"hello", "there">>, <<"your", "OTP">>, <<"OTP", "and", "Password">>}

AsrOutcomes ==
    {[kind |-> "text", words |-> t] : t \in Transcripts}
    \cup {[kind |-> k, words |-> <<>>] :
            k \in {"UnknownValueError", "RequestError", "Exception"}}

UnintelligibleTranscript == "[Unintelligible / Silence]"
ApiErrorTranscript == "[API Error: recognition request failed]"
ErrorTranscript == "[Error: could not read audio file]"

\* detect_keywords(self, audio_path): (detected, full_text)
detect_keywords(self, asr) ==
    IF asr.kind = "text"
    THEN LET lower_text == {Lower(asr.words[i]) : i \in 1..Len(asr.words)}
         IN  [detected |-> SelectSeq(self.keywords, LAMBDA kw : kw \in lower_text),
              full_text |-> join_words(asr.words),
              failed |-> FALSE]
    ELSE IF asr.kind = "UnknownValueError"
    THEN [detected |-> <<>>, full_text |-> UnintelligibleTranscript, failed |-> TRUE]
    ELSE IF asr.kind = "RequestError"
    THEN [detected |-> <<>>, full_text |-> ApiErrorTranscript, failed |-> TRUE]
    ELSE [detected |-> <<>>, full_text |-> ErrorTranscript, failed |-> TRUE]

\* analyze_call, step 3 without its except clause: a failure to write the
\* temporary file leaves the handler
keyword_detection_unguarded(self, audio, write_ok, asr) ==
    LET saved == save_temp_wav(audio, write_ok)
        found == detect_keywords(self, asr)
    IN  IF saved.raised
        THEN [raised |-> TRUE, detail |-> saved.detail,
              temp_file |-> FALSE, created |-> saved.created,
              keywords_detected |-> <<>>, transcript |-> "", failed |-> TRUE]
        ELSE [raised |-> FALSE, detail |-> "",
              temp_file |-> TRUE, created |-> TRUE,
              keywords_detected |-> found.detected,
              transcript |-> found.full_text, failed |-> found.failed]

\* analyze_call, step 3 (lines 169-176): save_temp_wav, then detect_keywords,
\* any exception replaced by an error transcript
keyword_detection(self, audio, write_ok, asr) ==
    LET saved == save_temp_wav(audio, write_ok)
        found == detect_keywords(self, asr)
    IN  IF saved.raised
        THEN [raised |-> FALSE, detail |-> "",
              temp_file |-> FALSE, created |-> saved.created,
              keywords_detected |-> <<>>,
              transcript |-> "[Error: " \o saved.detail \o "]", failed |-> TRUE]
        ELSE [raised |-> FALSE, detail |-> "",
              temp_file |-> TRUE, created |-> TRUE,
              keywords_detected |-> found.detected,
              transcript |-> found.full_text, failed |-> found.failed]

----------------------------------------------------------------------------
(* AudioFeatureExtractor (feature_extractor.py).  What the signal library  *)
(* measures on a buffer is a signal: the pitch picked in each frame (in    *)
(* units of 10 Hz, 0 where the frame is unvoiced; the track repeats its    *)
(* pattern over the frames), and one value per other named feature, in     *)
(* hundredths (the rows of a block alike).                                 *)

HopLength == 512        \* librosa's hop between analysis frames
DeltaWidth == 9         \* librosa.feature.delta's window, in frames

\* the number of analysis frames of a centred short-time transform
frames(audio) == 1 + audio.n \div HopLength

\* the keys of the features dict in the order extract_features inserts
\* them (lines 34-133), each with the number of entries of its value
Layout ==
    << [name |-> "mfcc_mean", width |-> 40],
       [name |-> "mfcc_std", width |-> 40],
       [name |-> "mfcc_delta", width |-> 40],
       [name |-> "spectral_centroid_mean", width |-> 1],
       [name |-> "spectral_centroid_std", width |-> 1],
       [name |-> "spectral_rolloff_mean", width |-> 1],
       [name |-> "spectral_rolloff_std", width |-> 1],
       [name |-> "spectral_bandwidth_mean", width |-> 1],
       [name |-> "spectral_bandwidth_std", width |-> 1],
       [name |-> "spectral_contrast_mean", width |-> 7],
       [name |-> "spectral_flatness_mean", width |-> 1],
       [name |-> "spectral_flatness_std", width |-> 1],
       [name |-> "zcr_mean", width |-> 1],
       [name |-> "zcr_std", width |-> 1],
       [name |-> "rms_mean", width |-> 1],
       [name |-> "rms_std", width |-> 1],
       [name |-> "pitch_mean", width |-> 1],
       [name |-> "pitch_std", width |-> 1],
       [name |-> "pitch_min", width |-> 1],
       [name |-> "pitch_max", width |-> 1],
       [name |-> "chroma_mean", width |-> 12],
       [name |-> "chroma_std", width |-> 12],
       [name |-> "tempogram_mean", width |-> 1],
       [name |-> "tempogram_std", width |-> 1],
       [name |-> "mel_spec_mean", width |-> 128],
       [name |-> "mel_spec_std", width |-> 128] >>

FeatureNames == {Layout[k].name : k \in 1..Len(Layout)}
PitchNames == {"pitch_mean", "pitch_std", "pitch_min", "pitch_max"}

\* the index at which the value of the k-th key starts in the flat vector
RECURSIVE offset(_)
offset(k) == IF k = 1 THEN 0 ELSE offset(k - 1) + Layout[k - 1].width

\* the number of entries of the flat vector
flat_length == offset(Len(Layout)) + Layout[Len(Layout)].width

\* the key whose value holds entry i of the flat vector
name_at ==
    [i \in 0..(flat_length - 1) |->
        LET k == CHOOSE j \in 1..Len(Layout) :
                     offset(j) <= i /\ i < offset(j) + Layout[j].width
        IN  Layout[k].name]

\* _flatten_features(features), lines 137-147: the values in key order
_flatten_features(features) ==
    [type |-> "ndarray",
     data |-> [i \in 0..(flat_length - 1) |-> features[name_at[i]]],
     nan |-> {}, nonnum |-> {}]

\* pitches[index, t] of line 101: the pitch picked in frame t
picked(signal, t) == signal.pitch[(t % Len(signal.pitch)) + 1]

\* sum(f[lo..hi]), halving the range
RECURSIVE SumRange(_, _, _)
SumRange(f, lo, hi) ==
    IF lo > hi THEN 0
    ELSE IF lo = hi THEN f[lo]
    ELSE LET mid == (lo + hi) \div 2
         IN  SumRange(f, lo, mid) + SumRange(f, mid + 1, hi)

\* the largest k in lo..hi with k * k <= n
RECURSIVE isqrt_between(_, _, _)
isqrt_between(n, lo, hi) ==
    IF lo = hi THEN lo
    ELSE LET mid == (lo + hi + 1) \div 2
         IN  IF mid * mid <= n THEN isqrt_between(n, mid, hi)
             ELSE isqrt_between(n, lo, mid - 1)

isqrt(n) == isqrt_between(n, 0, 46340)

\* lines 98-103: the picked pitches of the frames where it is > 0
pitch_values(audio, signal) ==
    SelectSeq([t \in 1..frames(audio) |-> picked(signal, t - 1)],
              LAMBDA pitch : pitch > 0)

\* lines 105-114: np.mean, np.std, np.min, np.max of pitch_values, in
\* hundredths of a Hz (rounded down); four zeros for an empty list
pitch_features(audio, signal) ==
    LET values == pitch_values(audio, signal)
        n == Len(values)
        total == SumRange(values, 1, n)
        squares == SumRange([i \in 1..n |-> values[i] * values[i]], 1, n)
        lowest == CHOOSE v \in {values[i] : i \in 1..n} :
                      \A i \in 1..n : v <= values[i]
        highest == CHOOSE v \in {values[i] : i \in 1..n} :
                       \A i \in 1..n : v >= values[i]
    IN  IF n > 0
        THEN [pitch_mean |-> (total * 1000) \div n,
              pitch_std |-> (isqrt(n * squares - total * total) * 1000) \div n,
              pitch_min |-> lowest * 1000,
              pitch_max |-> highest * 1000]
        ELSE [pitch_mean |-> 0, pitch_std |-> 0, pitch_min |-> 0, pitch_max |-> 0]

\* extract_features(audio), lines 16-135.  The short-time transforms raise
\* on an empty buffer; librosa.feature.delta (line 36) raises when the
\* buffer has fewer than DeltaWidth frames; the four pitch entries are
\* those of pitch_features, the others the library's measurements.
extract_features(audio, signal) ==
    IF audio.n = 0
    THEN [raised |-> TRUE, detail |-> "Audio buffer is empty",
          features |-> NoneFeatures]
    ELSE IF frames(audio) < DeltaWidth
    THEN [raised |-> TRUE,
          detail |-> "when mode='interp', width=9 cannot exceed data.shape[axis]",
          features |-> NoneFeatures]
    ELSE LET pitch == pitch_features(audio, signal)
         IN  [raised |-> FALSE, detail |-> "",
              features |-> _flatten_features(
                 [name \in FeatureNames |->
                     IF name \in PitchNames THEN pitch[name]
                     ELSE signal.value[name]])]

\* what the library measures beside the pitch: a bright or a dull voice
SignalValue(bright) ==
    [name \in FeatureNames |->
        CASE name = "spectral_centroid_mean" -> IF bright THEN 250000 ELSE 150000
          [] name = "zcr_mean" -> IF bright THEN 3 ELSE 12
          [] name = "rms_mean" -> 10
          [] name = "rms_std" -> 5
          [] name = "mfcc_std" -> 4000
          [] name = "mfcc_delta" -> 1
          [] name = "mel_spec_mean" -> 20
          [] OTHER -> 100]

\* pitch tracks: silence; a monotone voice; a voice with pauses; a voice
\* whose first voiced frame is the eleventh; a lively voice
PitchTracks ==
    {<<0>>, <<15>>, <<12, 0, 18>>, <<0, 0, 0, 0, 0, 0, 0, 0, 0, 0, 14>>,
     <<9, 21, 0, 30, 10>>}

\* the signals of the service's requests
Signals ==
    {[pitch |-> tr, value |-> SignalValue(b)] :
        tr \in {<<0>>, <<12, 0, 18>>}, b \in BOOLEAN}

\* the signals given to extract_features directly
AllSignals ==
    {[pitch |-> tr, value |-> SignalValue(b)] : tr \in PitchTracks, b \in BOOLEAN}

----------------------------------------------------------------------------
(* VoiceDetectionModel (audio_classifier.py) *)

\* VoiceDetectionModel.__init__ before load_model
NewVoiceDetectionModel ==
    [bound |-> FALSE, model |-> "None", scaler |-> "None",
     input_size |-> 0, state_loaded |-> FALSE]

\* the scaler a checkpoint carries: fitted on vectors of the network's
\* input size, it maps an entry x to (x - mean) / scale
StandardScaler(vm) ==
    [n_features_in |-> vm.input_size, mean |-> 200000, scale |-> 100]

\* self.scaler.transform(features), line 83: a new array, or the ValueError
\* raised for a vector of another length
transform(scaler, features) ==
    IF len(features) # scaler.n_features_in
    THEN [raised |-> TRUE, features |-> features]
    ELSE [raised |-> FALSE,
          features |-> [features EXCEPT !.data =
                           [i \in DOMAIN features.data |->
                               (features.data[i] - scaler.mean) \div scaler.scale]]]

\* the forward pass on a vector of any length
forward_unchecked(vm, features) ==
    [raised |-> FALSE, error |-> "", features |-> features]

\* lines 82-90: the scaler, then the network.  Either rejects a vector
\* whose length is not the input size: the scaler with a ValueError, the
\* first Linear layer with a RuntimeError.
forward(vm, features) ==
    LET scaled == IF vm.scaler # "None"
                  THEN transform(StandardScaler(vm), features)
                  ELSE [raised |-> FALSE, features |-> features]
    IN  IF scaled.raised
        THEN [raised |-> TRUE, error |-> "ValueError", features |-> features]
        ELSE IF len(scaled.features) # vm.input_size
        THEN [raised |-> TRUE, error |-> "RuntimeError", features |-> features]
        ELSE [raised |-> FALSE, error |-> "", features |-> scaled.features]

\* the softmax output [p(index 0), p(index 1)] of the network, thousandths
SoftmaxOutputs ==
    {<<p, 1000 - p>> : p \in {0, 70, 199, 200, 500, 850, 900, 901, 930, 1000}}

\* the confidence taken from index 0 whatever the larger entry is
torch_max_of_ai(probabilities) ==
    [confidence |-> probabilities[1],
     predicted |-> IF probabilities[1] >= probabilities[2] THEN 0 ELSE 1]

\* torch.max(probabilities, 1), line 92: the larger probability and its
\* index, the first of two equal ones
torch_max(probabilities) ==
    LET predicted == IF probabilities[1] >= probabilities[2] THEN 0 ELSE 1
    IN  [confidence |-> probabilities[predicted + 1], predicted |-> predicted]

\* f"{confidence:.2%}" for a confidence in thousandths
percent(confidence) ==
    ToString(confidence \div 10) \o "." \o ToString(confidence % 10) \o "0%"

SyntheticReason == "Synthetic spectral patterns detected"
TransitionsReason == "Unnatural voice transitions"
RoboticReason == "Robotic pitch consistency"
HighAiReason == "High AI likelihood"
NaturalPitchReason == "Natural pitch variations"
OrganicReason == "Organic spectral characteristics"
StrongHumanReason == "Strong human voice patterns"

Opt(cond, reason) == IF cond THEN <<reason>> ELSE <<>>

\* the AI_GENERATED rules with the confidence rule tested first
ai_reasons_confidence_first(spectral_centroid, zcr, pitch_std, confidence) ==
    Opt(confidence > 900, HighAiReason)
    \o Opt(spectral_centroid > 200000, SyntheticReason)
    \o Opt(zcr < 5, TransitionsReason)
    \o Opt(pitch_std < 2000, RoboticReason)

\* lines 123-130; feature values in hundredths, confidence in thousandths
ai_reasons(spectral_centroid, zcr, pitch_std, confidence) ==
    Opt(spectral_centroid > 200000, SyntheticReason)
    \o Opt(zcr < 5, TransitionsReason)
    \o Opt(pitch_std < 2000, RoboticReason)
    \o Opt(confidence > 900, HighAiReason)

\* the HUMAN rules with the organic reason given only without the pitch one
human_reasons_exclusive(pitch_std, confidence) ==
    (IF pitch_std > 5000 THEN <<NaturalPitchReason>> ELSE <<OrganicReason>>)
    \o Opt(confidence > 800, StrongHumanReason)

\* lines 132-136
human_reasons(pitch_std, confidence) ==
    Opt(pitch_std > 5000, NaturalPitchReason)
    \o <<OrganicReason>>
    \o Opt(confidence > 800, StrongHumanReason)

\* the reasons returned as they are, an empty list included
with_fallback_missing(reasons, confidence) == reasons

\* lines 138-141
with_fallback(reasons, confidence) ==
    IF reasons = <<>> THEN <<"Model confidence: " \o percent(confidence)>>
    ELSE reasons

RECURSIVE join_reasons(_)
join_reasons(reasons) ==
    IF Len(reasons) = 0 THEN ""
    ELSE IF Len(reasons) = 1 THEN reasons[1]
    ELSE reasons[1] \o "; " \o join_reasons(Tail(reasons))

\* _generate_explanation(features, classification, confidence), lines
\* 107-143; features is the array predict holds at that point (after the
\* scaler).  read are the three values taken from it, 0 for a short vector.
_generate_explanation(features, classification, confidence) ==
    LET spectral_centroid == IF len(features) > 40 THEN features.data[40] ELSE 0
        zcr == IF len(features) > 80 THEN features.data[80] ELSE 0
        pitch_std == IF len(features) > 85 THEN features.data[85] ELSE 0
        fired == IF classification = "AI_GENERATED"
                 THEN ai_reasons(spectral_centroid, zcr, pitch_std, confidence)
                 ELSE human_reasons(pitch_std, confidence)
        reasons == with_fallback(fired, confidence)
    IN  [read |-> [spectral_centroid |-> spectral_centroid, zcr |-> zcr,
                   pitch_std |-> pitch_std],
         reasons |-> reasons,
         text |-> join_reasons(reasons)]

NoExplanation ==
    [read |-> [spectral_centroid |-> 0, zcr |-> 0, pitch_std |-> 0],
     reasons |-> <<>>, text |-> ""]

\* predict with a network that takes on the length of the vector it is given
predict_adapting(vm, features, probabilities) ==
    LET adapted == [vm EXCEPT !.input_size = len(features)]
        f == forward(adapted, features)
        m == torch_max(probabilities)
        classification == IF m.predicted = 0 THEN "AI_GENERATED" ELSE "HUMAN"
    IN  IF f.raised
        THEN [raised |-> TRUE, error |-> f.error,
              classification |-> "", confidence |-> 0, predicted |-> -1,
              explanation |-> NoExplanation,
              self |-> adapted, features |-> features]
        ELSE [raised |-> FALSE, error |-> "",
              classification |-> classification,
              confidence |-> m.confidence, predicted |-> m.predicted,
              explanation |-> _generate_explanation(f.features, classification,
                                                    m.confidence),
              self |-> adapted, features |-> features]

\* predict(features), lines 64-105.  self and features are the model object
\* and the caller's array as the call leaves them: the network is in eval
\* mode, and reshape and transform make new arrays.
predict(vm, features, probabilities) ==
    LET f == forward(vm, features)
        m == torch_max(probabilities)
        classification == IF m.predicted = 0 THEN "AI_GENERATED" ELSE "HUMAN"
    IN  IF f.raised
        THEN [raised |-> TRUE, error |-> f.error,
              classification |-> "", confidence |-> 0, predicted |-> -1,
              explanation |-> NoExplanation,
              self |-> vm, features |-> features]
        ELSE [raised |-> FALSE, error |-> "",
              classification |-> classification,
              confidence |-> m.confidence, predicted |-> m.predicted,
              explanation |-> _generate_explanation(f.features, classification,
                                                    m.confidence),
              self |-> vm, features |-> features]

\* round(confidence, 2): thousandths to hundredths, a tie to the even one
round2(x) ==
    LET q == x \div 10
        r == x % 10
    IN  IF r > 5 THEN q + 1
        ELSE IF r < 5 THEN q
        ELSE IF q % 2 = 0 THEN q ELSE q + 1

----------------------------------------------------------------------------
(* app.py: start-up *)

\* the names bound at module level in app.py
ModuleGlobals ==
    {"app", "MODEL_PATH", "voice_model", "feature_extractor",
     "audio_processor", "fraud_detector", "VoiceDetectionModel",
     "AudioFeatureExtractor", "AudioProcessor", "FraudDetector",
     "verify_api_key", "np", "os", "io", "uvicorn"}

MissingCheckpoint ==
    [exists |-> FALSE, readable |-> FALSE, has_input_size |-> FALSE,
     input_size |-> 0, state_matches |-> FALSE, has_scaler |-> FALSE]

Checkpoints ==
    {MissingCheckpoint,
     [MissingCheckpoint EXCEPT !.exists = TRUE],
     [MissingCheckpoint EXCEPT !.exists = TRUE, !.readable = TRUE],
     [MissingCheckpoint EXCEPT !.exists = TRUE, !.readable = TRUE,
                               !.has_input_size = TRUE, !.input_size = FeatureLen]}
    \cup {[exists |-> TRUE, readable |-> TRUE, has_input_size |-> TRUE,
           input_size |-> n, state_matches |-> TRUE, has_scaler |-> sc] :
            n \in {FeatureLen, FeatureLen - 1}, sc \in BOOLEAN}

NoResponse ==
    [status |-> "none", code |-> 0, detail |-> "",
     classification |-> "", confidence |-> 0, explanation |-> "",
     fraud_analysis |-> NoAssessment, keywords_found |-> <<>>, transcript |-> ""]

ErrorResponse(code, detail) ==
    [NoResponse EXCEPT !.status = "error", !.code = code, !.detail = detail]

\* what a request is given: whether its key is valid, and what each
\* collaborator that was called made of it (the decoders, the signal
\* library, the WAV writer, the speech recogniser, the network, the random
\* generator of the demo branch)
NoAsr == [kind |-> "none", words |-> <<>>]

NotGiven ==
    [key_ok |-> FALSE,
     decoded |-> [raised |-> FALSE, detail |-> "", audio |-> [decoded |-> FALSE, n |-> 0]],
     extracted |-> [raised |-> FALSE, detail |-> "", features |-> NoneFeatures],
     write_ok |-> FALSE, asr |-> NoAsr, probabilities |-> <<0, 0>>,
     simulated |-> [label |-> "", confidence |-> 0]]

IdleRequest ==
    [gen |-> 0, endpoint |-> "", pc |-> "idle",
     given |-> NotGiven,
     audio |-> [decoded |-> FALSE, n |-> 0],
     features |-> [extracted |-> FALSE, size |-> 0, vec |-> NoneFeatures],
     temp_file |-> FALSE,
     kw_failed |-> FALSE,
     keywords_detected |-> <<>>, transcript |-> "",
     classification |-> "", confidence |-> 0,
     predict_calls |-> 0,
     failed_at |-> "",
     response |-> NoResponse]

Slots == {"r1", "r2"}

ServiceInit ==
    /\ checkpoint \in Checkpoints
    /\ startup = "exists"
    /\ loading = NewVoiceDetectionModel
    /\ voice_model = NewVoiceDetectionModel
    /\ disk = {}
    /\ clients = {"r1"}
    /\ req = [r \in Slots |-> IdleRequest]

\* lines 43-48: os.path.exists(MODEL_PATH)
StartupExists ==
    /\ startup = "exists"
    /\ startup' = IF checkpoint.exists THEN "torch_load" ELSE "serving"
    /\ UNCHANGED <<checkpoint, loading, voice_model, disk, clients, req>>
    /\ UNCHANGED <<detectorVars, riskVars, componentVars>>

\* VoiceDetectionModel(MODEL_PATH): __init__, then load_model line 52;
\* an exception is caught at app.py:49 and leaves voice_model as it was
StartupTorchLoad ==
    /\ startup = "torch_load"
    /\ loading' = NewVoiceDetectionModel
    /\ startup' = IF checkpoint.readable THEN "build" ELSE "serving"
    /\ UNCHANGED <<checkpoint, voice_model, disk, clients, req>>
    /\ UNCHANGED <<detectorVars, riskVars, componentVars>>

\* load_model lines 54-55: self.model = AudioClassifierNN(input_size)
StartupBuild ==
    /\ startup = "build"
    /\ IF checkpoint.has_input_size
       THEN /\ loading' = [loading EXCEPT !.model = "net",
                                          !.input_size = checkpoint.input_size]
            /\ startup' = "load_state"
       ELSE /\ startup' = "serving"
            /\ UNCHANGED loading
    /\ UNCHANGED <<checkpoint, voice_model, disk, clients, req>>
    /\ UNCHANGED <<detectorVars, riskVars, componentVars>>

\* load_model lines 56-62: load_state_dict, eval, the optional scaler
StartupLoadState ==
    /\ startup = "load_state"
    /\ IF checkpoint.state_matches
       THEN /\ loading' = [loading EXCEPT !.state_loaded = TRUE,
                             !.scaler = IF checkpoint.has_scaler
                                        THEN "scaler" ELSE "None"]
            /\ startup' = "bind"
       ELSE /\ startup' = "serving"
            /\ UNCHANGED loading
    /\ UNCHANGED <<checkpoint, voice_model, disk, clients, req>>
    /\ UNCHANGED <<detectorVars, riskVars, componentVars>>

\* line 45: the assignment voice_model = <the constructed object>
StartupBind ==
    /\ startup = "bind"
    /\ voice_model' = [loading EXCEPT !.bound = TRUE]
    /\ startup' = "serving"
    /\ UNCHANGED <<checkpoint, loading, disk, clients, req>>
    /\ UNCHANGED <<detectorVars, riskVars, componentVars>>

----------------------------------------------------------------------------
(* app.py: the two endpoints.  A request is served in steps; each step is  *)
(* the code up to the next call that can fail.                             *)

Endpoints == {"detect_voice", "analyze_call"}
\* buffer lengths: empty, one sample short of DeltaWidth frames, just
\* DeltaWidth frames, one second, the longest valid one, one sample more
AudioLens == {0, (DeltaWidth - 1) * HopLength - 1, (DeltaWidth - 1) * HopLength,
              SampleRate, MaxLengthSeconds * SampleRate,
              MaxLengthSeconds * SampleRate + 1}

\* what the libraries can make of a request's audioBase64
Bytes ==
    [b64_ok : BOOLEAN, works : SUBSET {Strategies[i] : i \in 1..Len(Strategies)},
     export_ok : BOOLEAN, n : AudioLens]

\* while two slots are served at once the requests are drawn from smaller
\* sets: undecodable bytes or a clip of one second, two signals, two
\* transcripts, three softmax outputs
OverlappingBytes ==
    {[b64_ok |-> ok, works |-> {"MP3"}, export_ok |-> TRUE, n |-> SampleRate] :
        ok \in BOOLEAN}

OverlappingSignals ==
    {[pitch |-> <<12, 0, 18>>, value |-> SignalValue(b)] : b \in BOOLEAN}

OverlappingAsrOutcomes ==
    {[kind |-> "text", words |-> t] : t \in {<<"hello", "there">>, <<"your", "OTP">>}}

OverlappingSoftmaxOutputs == {<<900, 100>>, <<500, 500>>, <<200, 800>>}

Overlapping == Cardinality(clients) > 1

\* the sets the actions below draw a request's inputs from
RequestLimit == IF Overlapping THEN MaxOverlapping ELSE MaxRequests
RequestBytes == IF Overlapping THEN OverlappingBytes ELSE Bytes
RequestSignals == IF Overlapping THEN OverlappingSignals ELSE Signals
RequestAsrOutcomes == IF Overlapping THEN OverlappingAsrOutcomes ELSE AsrOutcomes
RequestSoftmaxOutputs ==
    IF Overlapping THEN OverlappingSoftmaxOutputs ELSE SoftmaxOutputs

TempPath(r) == <<r, req[r].gen>>

\* the finally clause of analyze_call (lines 218-224)
cleanup(files, r, temp_file, remove_ok) ==
    IF temp_file /\ TempPath(r) \in files /\ remove_ok
    THEN files \ {TempPath(r)} ELSE files

\* a request arrives; the dependency verify_api_key runs first (auth.py:15-22)
Receive(r) ==
    /\ startup = "serving"
    /\ r \in clients
    /\ req[r].pc \in {"idle", "done"}
    /\ req[r].gen < RequestLimit
    /\ \E ep \in Endpoints, key_ok \in BOOLEAN :
         req' = [req EXCEPT ![r] =
                   IF key_ok
                   THEN [IdleRequest EXCEPT !.gen = req[r].gen + 1,
                                            !.given.key_ok = TRUE,
                                            !.endpoint = ep, !.pc = "decode"]
                   ELSE [IdleRequest EXCEPT !.gen = req[r].gen + 1,
                                            !.endpoint = ep, !.pc = "done",
                                            !.failed_at = "auth",
                                            !.response = ErrorResponse(401, "Invalid API key")]]
    /\ UNCHANGED <<checkpoint, startup, loading, voice_model, disk, clients>>
    /\ UNCHANGED <<detectorVars, riskVars, componentVars>>

\* step 1 of both handlers: audio_processor.decode_base64_to_audio; its
\* failures are ValueErrors: 400 in detect_voice, 500 in analyze_call
Decode(r) ==
    /\ req[r].pc = "decode"
    /\ \E bytes \in RequestBytes :
         LET d == decode_base64_to_audio(bytes)
             given == [raised |-> d.raised, detail |-> d.detail, audio |-> d.audio]
         IN  req' = IF d.raised
                    THEN [req EXCEPT ![r].pc = "done", ![r].failed_at = "decode",
                            ![r].given.decoded = given,
                            ![r].response =
                               IF req[r].endpoint = "detect_voice"
                               THEN ErrorResponse(400, d.detail)
                               ELSE ErrorResponse(500, d.detail)]
                    ELSE [req EXCEPT ![r].audio = d.audio,
                            ![r].given.decoded = given,
                            ![r].pc = IF req[r].endpoint = "detect_voice"
                                      THEN "validate" ELSE "extract"]
    /\ UNCHANGED <<checkpoint, startup, loading, voice_model, disk, clients>>
    /\ UNCHANGED <<detectorVars, riskVars, componentVars>>

\* detect_voice step 2: audio_processor.validate_audio(audio)
Validate(r) ==
    /\ req[r].pc = "validate"
    /\ LET v == validate_audio(req[r].audio, MaxLengthSeconds)
       IN  req' = IF v.raised
                  THEN [req EXCEPT ![r].pc = "done", ![r].failed_at = "validate",
                                   ![r].response = ErrorResponse(400, v.detail)]
                  ELSE [req EXCEPT ![r].pc = "extract"]
    /\ UNCHANGED <<checkpoint, startup, loading, voice_model, disk, clients>>
    /\ UNCHANGED <<detectorVars, riskVars, componentVars>>

\* step 3 of detect_voice, step 2 of analyze_call:
\* feature_extractor.extract_features(audio); the library's exceptions are
\* no ValueErrors, so both handlers answer them with 500
Extract(r) ==
    /\ req[r].pc = "extract"
    /\ \E signal \in RequestSignals :
         LET e == extract_features(req[r].audio, signal)
         IN  req' = IF e.raised
                    THEN [req EXCEPT ![r].pc = "done", ![r].failed_at = "extract",
                            ![r].given.extracted = e,
                            ![r].response =
                               IF req[r].endpoint = "detect_voice"
                               THEN ErrorResponse(500,
                                       "Internal server error: " \o e.detail)
                               ELSE ErrorResponse(500, e.detail)]
                    ELSE [req EXCEPT ![r].features =
                                        [extracted |-> TRUE,
                                         size |-> len(e.features),
                                         vec |-> e.features],
                            ![r].given.extracted = e,
                            ![r].pc = IF req[r].endpoint = "detect_voice"
                                      THEN "classify" ELSE "keywords"]
    /\ UNCHANGED <<checkpoint, startup, loading, voice_model, disk, clients>>
    /\ UNCHANGED <<detectorVars, riskVars, componentVars>>

\* detect_voice steps 4 and 5 (lines 120-145).  The test reads the name
\* model, which app.py never binds: the NameError is caught at line 141.
ClassifyVoice(r) ==
    /\ req[r].pc = "classify"
    /\ req[r].endpoint = "detect_voice"
    /\ IF "model" \notin ModuleGlobals
       THEN /\ req' = [req EXCEPT ![r].pc = "done", ![r].failed_at = "classify",
                         ![r].response = ErrorResponse(500,
                            "Internal server error: name 'model' is not defined")]
            /\ voice_model' = voice_model
       ELSE IF voice_model.model # "None"
       THEN \E probabilities \in RequestSoftmaxOutputs :
              LET p == predict(voice_model, req[r].features.vec, probabilities)
              IN  /\ req' = IF p.raised
                            THEN [req EXCEPT ![r].pc = "done", ![r].failed_at = "classify",
                                    ![r].predict_calls = 1,
                                    ![r].response =
                                       IF p.error = "ValueError"
                                       THEN ErrorResponse(400, "size mismatch")
                                       ELSE ErrorResponse(500,
                                          "Internal server error: size mismatch")]
                            ELSE [req EXCEPT ![r].pc = "done",
                                    ![r].predict_calls = 1,
                                    ![r].given.probabilities = probabilities,
                                    ![r].classification = p.classification,
                                    ![r].confidence = p.confidence,
                                    ![r].response = [NoResponse EXCEPT
                                        !.status = "success", !.code = 200,
                                        !.classification = p.classification,
                                        !.confidence = round2(p.confidence),
                                        !.explanation = p.explanation.text]]
                  /\ voice_model' = p.self
       ELSE \E label \in {"AI_GENERATED", "HUMAN"}, c \in {750, 850, 950} :
              /\ req' = [req EXCEPT ![r].pc = "done",
                           ![r].given.simulated = [label |-> label, confidence |-> c],
                           ![r].classification = label,
                           ![r].confidence = c,
                           ![r].response = [NoResponse EXCEPT
                               !.status = "success", !.code = 200,
                               !.classification = label,
                               !.confidence = round2(c),
                               !.explanation = "Demo mode - model not trained yet"]]
              /\ voice_model' = voice_model
    /\ UNCHANGED <<checkpoint, startup, loading, disk, clients>>
    /\ UNCHANGED <<detectorVars, riskVars, componentVars>>

\* analyze_call step 3 (lines 167-176); the recogniser is called only on
\* a file that was written
DetectKeywords(r) ==
    /\ req[r].pc = "keywords"
    /\ \E write_ok \in BOOLEAN, asr \in RequestAsrOutcomes, remove_ok \in BOOLEAN :
         LET self == [weights |-> weights, keywords |-> keywords]
             k == keyword_detection(self, req[r].audio, write_ok, asr)
             made == IF k.created THEN disk \cup {TempPath(r)} ELSE disk
         IN  IF k.raised
             THEN /\ req' = [req EXCEPT ![r].pc = "done",
                               ![r].failed_at = "keywords",
                               ![r].kw_failed = TRUE,
                               ![r].response = ErrorResponse(500, k.detail)]
                  /\ disk' = cleanup(made, r, k.temp_file, remove_ok)
             ELSE /\ req' = [req EXCEPT ![r].pc = "classify",
                               ![r].given.write_ok = k.temp_file,
                               ![r].given.asr = IF k.temp_file THEN asr ELSE NoAsr,
                               ![r].temp_file = k.temp_file,
                               ![r].kw_failed = k.failed,
                               ![r].keywords_detected = k.keywords_detected,
                               ![r].transcript = k.transcript]
                  /\ disk' = made
    /\ UNCHANGED <<checkpoint, startup, loading, voice_model, clients>>
    /\ UNCHANGED <<detectorVars, riskVars, componentVars>>

\* analyze_call step 4 (lines 178-187)
ClassifyCall(r) ==
    /\ req[r].pc = "classify"
    /\ req[r].endpoint = "analyze_call"
    /\ IF voice_model.bound /\ voice_model.model # "None"
       THEN \E probabilities \in RequestSoftmaxOutputs, remove_ok \in BOOLEAN :
              LET p == predict(voice_model, req[r].features.vec, probabilities)
              IN  /\ IF p.raised
                     THEN /\ req' = [req EXCEPT ![r].pc = "done",
                                       ![r].failed_at = "classify",
                                       ![r].predict_calls = 1,
                                       ![r].response = ErrorResponse(500, "size mismatch")]
                          /\ disk' = cleanup(disk, r, req[r].temp_file, remove_ok)
                     ELSE /\ req' = [req EXCEPT ![r].pc = "score",
                                       ![r].predict_calls = 1,
                                       ![r].given.probabilities = probabilities,
                                       ![r].classification = p.classification,
                                       ![r].confidence = p.confidence]
                          /\ disk' = disk
                  /\ voice_model' = p.self
       ELSE /\ req' = [req EXCEPT ![r].pc = "score",
                         ![r].classification = "AI_GENERATED",
                         ![r].confidence = 850]
            /\ disk' = disk
            /\ voice_model' = voice_model
    /\ UNCHANGED <<checkpoint, startup, loading, clients>>
    /\ UNCHANGED <<detectorVars, riskVars, componentVars>>

\* lines 191-193 with the mock vector's energy block filled as well
mock_features_energetic(classification) ==
    MkFeatures(FeatureLen,
               IF classification = "AI_GENERATED" THEN MaxEnergy ELSE 0, 0,
               IF classification = "AI_GENERATED" THEN 3000 ELSE 0, 0, {}, {})

\* lines 191-193: np.zeros(425), entry 40 set to 3000 for AI_GENERATED
mock_features(classification) ==
    MkFeatures(FeatureLen, 0, 0,
               IF classification = "AI_GENERATED" THEN 3000 ELSE 0, 0, {}, {})

\* line 196 with the confidence passed on whatever the label is
ai_prob_of_confidence(classification, confidence) == confidence

\* line 196: ai_prob, in thousandths
ai_prob(classification, confidence) ==
    IF classification = "AI_GENERATED" THEN confidence ELSE 1000 - confidence

\* analyze_call step 5, the return and the finally clause (lines 189-224)
ScoreCall(r) ==
    /\ req[r].pc = "score"
    /\ \E remove_ok \in BOOLEAN :
         LET self == [weights |-> weights, keywords |-> keywords]
             out == analyze_risk(self,
                                 ai_prob(req[r].classification, req[r].confidence),
                                 mock_features(req[r].classification),
                                 [given |-> TRUE, list |-> req[r].keywords_detected])
         IN  /\ req' = [req EXCEPT ![r].pc = "done",
                          ![r].keywords_detected = out.keywords_detected.list,
                          ![r].failed_at = IF out.raised THEN "score" ELSE "",
                          ![r].response =
                             IF out.raised
                             THEN ErrorResponse(500, "risk scoring failed")
                             ELSE [NoResponse EXCEPT
                                     !.status = "success", !.code = 200,
                                     !.classification = req[r].classification,
                                     !.confidence = round2(req[r].confidence),
                                     !.fraud_analysis = out.ret,
                                     !.keywords_found = out.keywords_detected.list,
                                     !.transcript = req[r].transcript]]
             /\ weights' = out.self.weights
             /\ keywords' = out.self.keywords
             /\ disk' = cleanup(disk, r, req[r].temp_file, remove_ok)
    /\ UNCHANGED <<checkpoint, startup, loading, voice_model, clients>>
    /\ UNCHANGED <<riskVars, componentVars>>

\* the service is not running
ServiceOff ==
    /\ checkpoint = MissingCheckpoint
    /\ startup = "off"
    /\ loading = NewVoiceDetectionModel
    /\ voice_model = NewVoiceDetectionModel
    /\ disk = {}
    /\ clients = {}
    /\ req = [r \in Slots |-> IdleRequest]

\* no component is called directly
NoValidation ==
    [pending |-> FALSE, audio |-> [decoded |-> FALSE, n |-> 0], max_length |-> 0,
     called |-> FALSE, raised |-> FALSE, detail |-> "", ret |-> FALSE,
     audio_after |-> [decoded |-> FALSE, n |-> 0]]

NoDecoding ==
    [pending |-> FALSE,
     bytes |-> [b64_ok |-> FALSE, works |-> {}, export_ok |-> FALSE, n |-> 0],
     called |-> FALSE, raised |-> FALSE, detail |-> "",
     audio |-> [decoded |-> FALSE, n |-> 0], attempted |-> <<>>, errors |-> <<>>]

NoExtraction ==
    [pending |-> FALSE, audio |-> [decoded |-> FALSE, n |-> 0],
     signal |-> [pitch |-> <<0>>, value |-> SignalValue(FALSE)],
     called |-> FALSE, raised |-> FALSE, detail |-> "", features |-> NoneFeatures]

NoPrediction ==
    [pending |-> FALSE, self |-> NewVoiceDetectionModel, features |-> NoneFeatures,
     probabilities |-> <<0, 0>>,
     called |-> FALSE, raised |-> FALSE, error |-> "",
     classification |-> "", confidence |-> 0, predicted |-> -1,
     explanation |-> NoExplanation,
     self_after |-> NewVoiceDetectionModel, features_after |-> NoneFeatures]

ComponentsIdle ==
    /\ validation = NoValidation
    /\ decoding = NoDecoding
    /\ extraction = NoExtraction
    /\ prediction = NoPrediction

----------------------------------------------------------------------------
(* Direct callers of FraudDetector.analyze_risk: the arguments are drawn   *)
(* in RiskInit, the actions call the method on them.                       *)

\* thousandths around the thresholds 0.2, 0.5 and 0.85
AiConfidences == {0, 199, 200, 500, 501, 850, 851, 1000}

EnergyEntries == {-1, 120, 150, MaxEnergy}
SpectralEntries == {0, 3000}
FeatureLens == {0, 45, 46, 290, 291, FeatureLen}

\* None; full-length arrays with every choice of the two blocks; arrays of
\* every length around the two length tests with constant blocks; arrays
\* holding a NaN or a non-number inside and outside the blocks; a quiet
\* array whose urgency is 0.2
FeatureObjects ==
    {NoneFeatures}
    \cup {MkFeatures(FeatureLen, a, b, c, d, {}, {}) :
            a \in EnergyEntries, b \in EnergyEntries,
            c \in SpectralEntries, d \in SpectralEntries}
    \cup {MkFeatures(n, a, a, c, c, {}, {}) :
            n \in FeatureLens, a \in EnergyEntries, c \in SpectralEntries}
    \cup {MkFeatures(n, 0, 0, 0, 0, nanAt, strAt) :
            n \in {46, FeatureLen},
            nanAt \in {{}, {41}, {285}},
            strAt \in {{}, {44}, {289}, {100}}}
    \cup {MkFeatures(FeatureLen, 0, 0, 10, 10, {}, {})}

KeywordLists ==
    {SubSeq(FraudDetector_init.keywords, 1, n) : n \in 0..MaxHits}
    \cup {<<"otp">>, <<"otp", "password">>}

KeywordArgs ==
    {[given |-> TRUE, list |-> l] : l \in KeywordLists}
    \cup {[given |-> FALSE, list |-> <<>>]}

NotCalled == [called |-> FALSE, raised |-> FALSE, ret |-> NoAssessment]

NoLevelCall == [pending |-> FALSE, score |-> 0, called |-> FALSE, level |-> ""]

\* scores handed to _get_risk_level directly: every tenth of a point in 0..100
LevelScores == {t * (ONE \div 10) : t \in 0..1000}

\* a caller of analyze_risk
RiskCallerInit ==
    /\ ai_confidence \in AiConfidences
    /\ audio_features \in FeatureObjects
    /\ keywords_detected \in KeywordArgs
    /\ level_call = NoLevelCall

\* a caller of _get_risk_level
LevelCallerInit ==
    /\ ai_confidence = 0
    /\ audio_features = NoneFeatures
    /\ keywords_detected = [given |-> FALSE, list |-> <<>>]
    /\ level_call \in {[pending |-> TRUE, score |-> s, called |-> FALSE, level |-> ""] :
                          s \in LevelScores}

RiskInit ==
    /\ weights = FraudDetector_init.weights
    /\ keywords = FraudDetector_init.keywords
    /\ risk = NotCalled
    /\ first_risk = NotCalled
    /\ locals = NoLocals
    /\ history = <<>>
    /\ (RiskCallerInit \/ LevelCallerInit)
    /\ ServiceOff
    /\ ComponentsIdle

\* fraud_detector.analyze_risk(ai_confidence, audio_features, keywords_detected)
CallAnalyzeRisk ==
    /\ ~level_call.pending /\ ~level_call.called
    /\ Len(history) < MaxCalls
    /\ LET self == [weights |-> weights, keywords |-> keywords]
           out == analyze_risk(self, ai_confidence, audio_features,
                               keywords_detected)
           res == [called |-> TRUE, raised |-> out.raised, ret |-> out.ret]
       IN  /\ risk' = res
           /\ first_risk' = IF first_risk.called THEN first_risk ELSE res
           /\ locals' = out.locals
           /\ weights' = out.self.weights
           /\ keywords' = out.self.keywords
           /\ audio_features' = out.audio_features
           /\ keywords_detected' = out.keywords_detected
    /\ history' = Append(history, "own")
    /\ UNCHANGED <<ai_confidence, level_call>>
    /\ UNCHANGED <<serviceVars, componentVars>>

\* a call on other arguments made between two calls on the caller's own
OtherArguments ==
    {[conf |-> 1000, features |-> MkFeatures(FeatureLen, 0, 0, 3000, 0, {}, {}),
      kwarg |-> [given |-> TRUE, list |-> <<"otp", "password">>]],
     [conf |-> 0, features |-> NoneFeatures,
      kwarg |-> [given |-> FALSE, list |-> <<>>]]}

CallAnalyzeRiskOther ==
    /\ ~level_call.pending /\ ~level_call.called
    /\ Len(history) < MaxCalls
    /\ \E o \in OtherArguments :
         LET self == [weights |-> weights, keywords |-> keywords]
             out == analyze_risk(self, o.conf, o.features, o.kwarg)
         IN  /\ weights' = out.self.weights
             /\ keywords' = out.self.keywords
    /\ history' = Append(history, "other")
    /\ UNCHANGED <<ai_confidence, audio_features, keywords_detected, risk,
                   first_risk, locals, level_call>>
    /\ UNCHANGED <<serviceVars, componentVars>>

\* fraud_detector._get_risk_level(score)
CallGetRiskLevel ==
    /\ level_call.pending
    /\ level_call' = [level_call EXCEPT !.pending = FALSE, !.called = TRUE,
                                         !.level = _get_risk_level(level_call.score)]
    /\ UNCHANGED <<weights, keywords, ai_confidence, audio_features,
                   keywords_detected, risk, first_risk, locals, history>>
    /\ UNCHANGED <<serviceVars, componentVars>>

RiskNext == CallAnalyzeRisk \/ CallAnalyzeRiskOther \/ CallGetRiskLevel

RiskSpec == RiskInit /\ [][RiskNext]_vars

----------------------------------------------------------------------------
(* The service: start-up, then requests *)

RiskIdle ==
    /\ ai_confidence = 0
    /\ audio_features = NoneFeatures
    /\ keywords_detected = [given |-> FALSE, list |-> <<>>]
    /\ risk = NotCalled
    /\ first_risk = NotCalled
    /\ locals = NoLocals
    /\ history = <<>>
    /\ level_call = NoLevelCall

Init ==
    /\ weights = FraudDetector_init.weights
    /\ keywords = FraudDetector_init.keywords
    /\ RiskIdle
    /\ ServiceInit
    /\ ComponentsIdle

Next ==
    \/ StartupExists
    \/ StartupTorchLoad
    \/ StartupBuild
    \/ StartupLoadState
    \/ StartupBind
    \/ \E r \in Slots : Receive(r)
    \/ \E r \in Slots : Decode(r)
    \/ \E r \in Slots : Validate(r)
    \/ \E r \in Slots : Extract(r)
    \/ \E r \in Slots : ClassifyVoice(r)
    \/ \E r \in Slots : DetectKeywords(r)
    \/ \E r \in Slots : ClassifyCall(r)
    \/ \E r \in Slots : ScoreCall(r)

Spec == Init /\ [][Next]_vars

----------------------------------------------------------------------------
(* The service with two requests in flight at once: the same start-up and  *)
(* the same handlers, their steps interleaved                               *)

ConcurrentInit ==
    /\ weights = FraudDetector_init.weights
    /\ keywords = FraudDetector_init.keywords
    /\ RiskIdle
    /\ checkpoint \in Checkpoints
    /\ startup = "exists"
    /\ loading = NewVoiceDetectionModel
    /\ voice_model = NewVoiceDetectionModel
    /\ disk = {}
    /\ clients = Slots
    /\ req = [r \in Slots |-> IdleRequest]
    /\ ComponentsIdle

ConcurrentSpec == ConcurrentInit /\ [][Next]_vars

----------------------------------------------------------------------------
(* Direct callers of the components: the arguments are drawn in            *)
(* ComponentInit, the actions call the function on them.                   *)

\* validate_audio: limits of 0, 1 and 30 seconds, buffers around each limit
ValidationInputs ==
    {[NoValidation EXCEPT !.pending = TRUE, !.max_length = m,
                          !.audio = [decoded |-> TRUE, n |-> n],
                          !.audio_after = [decoded |-> TRUE, n |-> n]] :
        m \in {0, 1, MaxLengthSeconds},
        n \in {0, 1, SampleRate - 1, SampleRate, SampleRate + 1,
               MaxLengthSeconds * SampleRate - 1, MaxLengthSeconds * SampleRate,
               MaxLengthSeconds * SampleRate + 1}}

\* decode_base64_to_audio: every set of decoders that can read the bytes
DecodingInputs ==
    {[NoDecoding EXCEPT !.pending = TRUE, !.bytes = b] :
        b \in {x \in Bytes : x.n \in {0, SampleRate}}}

\* extract_features: every buffer length of AudioLens, and a single sample
ExtractionInputs ==
    {[NoExtraction EXCEPT !.pending = TRUE,
                          !.audio = [decoded |-> TRUE, n |-> n], !.signal = g] :
        n \in AudioLens \cup {1, 11 * HopLength}, g \in AllSignals}

\* an array of n entries, zero but at the three places the explanation reads
MkVector(n, c, z, p) ==
    [type |-> "ndarray",
     data |-> [i \in 0..(n - 1) |->
                  IF i = 40 THEN c ELSE IF i = 80 THEN z
                  ELSE IF i = 85 THEN p ELSE 0],
     nan |-> {}, nonnum |-> {}]

\* entries around the thresholds 2000, 0.05, 20 and 50 (hundredths), before
\* and after a scaler
PredictVectors ==
    {MkVector(n, c, z, p) :
        n \in {86, FeatureLen - 1, FeatureLen},
        c \in {200000, 200001, 20200100},
        z \in {4, 5, 200500},
        p \in {1999, 2000, 5000, 5001, 400000, 700100}}
    \cup {MkVector(41, c, 0, 0) : c \in {200000, 200001, 20200100}}
    \cup {MkVector(0, 0, 0, 0)}

\* loaded models: networks of three input sizes, with and without a scaler
LoadedModels ==
    {[bound |-> TRUE, model |-> "net", scaler |-> sc,
      input_size |-> n, state_loaded |-> TRUE] :
        n \in {41, 86, FeatureLen}, sc \in {"None", "scaler"}}

PredictionInputs ==
    {[NoPrediction EXCEPT !.pending = TRUE, !.self = vm, !.self_after = vm,
                          !.features = f, !.features_after = f,
                          !.probabilities = pr] :
        vm \in LoadedModels, f \in PredictVectors, pr \in SoftmaxOutputs}

ComponentInit ==
    /\ weights = FraudDetector_init.weights
    /\ keywords = FraudDetector_init.keywords
    /\ RiskIdle
    /\ ServiceOff
    /\ \/ /\ validation \in ValidationInputs
          /\ decoding = NoDecoding
          /\ extraction = NoExtraction
          /\ prediction = NoPrediction
       \/ /\ validation = NoValidation
          /\ decoding \in DecodingInputs
          /\ extraction = NoExtraction
          /\ prediction = NoPrediction
       \/ /\ validation = NoValidation
          /\ decoding = NoDecoding
          /\ extraction \in ExtractionInputs
          /\ prediction = NoPrediction
       \/ /\ validation = NoValidation
          /\ decoding = NoDecoding
          /\ extraction = NoExtraction
          /\ prediction \in PredictionInputs

\* audio_processor.validate_audio(audio, max_length)
CallValidateAudio ==
    /\ validation.pending
    /\ LET v == validate_audio(validation.audio, validation.max_length)
       IN  validation' = [validation EXCEPT !.pending = FALSE, !.called = TRUE,
                             !.raised = v.raised, !.detail = v.detail,
                             !.ret = v.ret, !.audio_after = v.audio]
    /\ UNCHANGED <<decoding, extraction, prediction>>
    /\ UNCHANGED <<detectorVars, riskVars, serviceVars>>

\* audio_processor.decode_base64_to_audio(audio_base64)
CallDecode ==
    /\ decoding.pending
    /\ LET d == decode_base64_to_audio(decoding.bytes)
       IN  decoding' = [decoding EXCEPT !.pending = FALSE, !.called = TRUE,
                           !.raised = d.raised, !.detail = d.detail,
                           !.audio = d.audio, !.attempted = d.attempted,
                           !.errors = d.errors]
    /\ UNCHANGED <<validation, extraction, prediction>>
    /\ UNCHANGED <<detectorVars, riskVars, serviceVars>>

\* feature_extractor.extract_features(audio)
CallExtractFeatures ==
    /\ extraction.pending
    /\ LET e == extract_features(extraction.audio, extraction.signal)
       IN  extraction' = [extraction EXCEPT !.pending = FALSE, !.called = TRUE,
                             !.raised = e.raised, !.detail = e.detail,
                             !.features = e.features]
    /\ UNCHANGED <<validation, decoding, prediction>>
    /\ UNCHANGED <<detectorVars, riskVars, serviceVars>>

\* voice_model.predict(features)
CallPredict ==
    /\ prediction.pending
    /\ LET p == predict(prediction.self, prediction.features,
                        prediction.probabilities)
       IN  prediction' = [prediction EXCEPT !.pending = FALSE, !.called = TRUE,
                             !.raised = p.raised, !.error = p.error,
                             !.classification = p.classification,
                             !.confidence = p.confidence,
                             !.predicted = p.predicted,
                             !.explanation = p.explanation,
                             !.self_after = p.self,
                             !.features_after = p.features]
    /\ UNCHANGED <<validation, decoding, extraction>>
    /\ UNCHANGED <<detectorVars, riskVars, serviceVars>>

ComponentNext ==
    CallValidateAudio \/ CallDecode \/ CallExtractFeatures \/ CallPredict

ComponentSpec == ComponentInit /\ [][ComponentNext]_vars

----------------------------------------------------------------------------
(* Properties of FraudDetector, checked under RiskSpec *)

Returned == risk.called /\ ~risk.raised
GivenKeywords == IF keywords_detected.given THEN keywords_detected.list ELSE <<>>
AiRisk == ai_confidence * 100 * (ONE \div 1000)
Levels == {"LOW", "MEDIUM", "HIGH", "CRITICAL"}

\* the weighted sum 0.5, 0.2, 0.3 of the three risks of the latest call
WeightedSum ==
    (AiRisk * 5) \div 10 + (locals.urgency_score * 2) \div 10
    + (Min(100 * ONE, 25 * ONE * Len(GivenKeywords)) * 3) \div 10

\* C1: the total of analyze_risk is the weighted sum ai_risk*0.5 +
\* urgency_score*0.2 + keyword_risk*0.3, replaced by min(100, total*1.3)
\* exactly when the keyword list is non-empty and (ai_risk > 50 or
\* urgency_score > 60); the reported risk_score is that total rounded.
C1_WeightedTotalAndEscalation ==
    Returned =>
        /\ locals.ai_risk = AiRisk
        /\ locals.weighted = WeightedSum
        /\ locals.total_risk =
             IF GivenKeywords # <<>>
                /\ (AiRisk > 50 * ONE \/ locals.urgency_score > 60 * ONE)
             THEN Min(100 * ONE, (WeightedSum * 13) \div 10)
             ELSE WeightedSum
        /\ risk.ret.risk_score = round1(locals.total_risk)

\* C1 witness: keywords with a low AI risk, escalated by urgency alone and
\* staying under the cap.
C1_Witness ==
    /\ Returned
    /\ GivenKeywords # <<>>
    /\ AiRisk <= 50 * ONE
    /\ locals.urgency_score > 60 * ONE
    /\ locals.total_risk = (WeightedSum * 13) \div 10
    /\ locals.total_risk < 100 * ONE

\* C2: every call of analyze_risk, also on a feature object whose urgency
\* computation fails, returns risk_score in [0,100], a risk_level among
\* LOW, MEDIUM, HIGH, CRITICAL, and urgency_score and keyword_risk metrics
\* in [0,100].  (Reported numbers are in tenths of a point.)
C2_AssessmentRanges ==
    risk.called =>
        /\ ~risk.raised
        /\ risk.ret.risk_score \in 0..1000
        /\ risk.ret.risk_level \in Levels
        /\ risk.ret.metrics.urgency_score \in 0..1000
        /\ risk.ret.metrics.keyword_risk \in 0..1000

\* C2 witness: the urgency computation failed and the score reached the cap.
C2_Witness ==
    /\ Returned
    /\ urgency_try(audio_features).raises
    /\ risk.ret.risk_score = 1000
    /\ risk.ret.risk_level = "CRITICAL"

LevelOf(total) ==
    CASE total > 75 * ONE -> "CRITICAL"
      [] total <= 75 * ONE /\ total > 50 * ONE -> "HIGH"
      [] total <= 50 * ONE /\ total > 25 * ONE -> "MEDIUM"
      [] total <= 25 * ONE -> "LOW"

\* C3: the risk level has strict lower bounds: total > 75 is CRITICAL,
\* 50 < total <= 75 is HIGH, 25 < total <= 50 is MEDIUM, total <= 25 is LOW,
\* both for the total analyze_risk computes and for any score handed to
\* _get_risk_level; 75.0 is HIGH and 75.1 is CRITICAL.
C3_RiskLevelThresholds ==
    /\ Returned => risk.ret.risk_level = LevelOf(locals.total_risk)
    /\ level_call.called =>
         /\ level_call.level = LevelOf(level_call.score)
         /\ level_call.score = 75 * ONE => level_call.level = "HIGH"
         /\ level_call.score = 75 * ONE + ONE \div 10 =>
              level_call.level = "CRITICAL"

\* C3 witness: _get_risk_level was called on exactly 75.0 and said HIGH.
C3_Witness ==
    /\ level_call.called
    /\ level_call.score = 75 * ONE
    /\ level_call.level = "HIGH"

\* the alerts the three conditions call for, in their fixed order
ExpectedAlerts ==
    LET robocall == IF AiRisk > 85 * ONE THEN <<RobocallAlert>> ELSE <<>>
        pressure == IF locals.urgency_score > 75 * ONE
                    THEN <<PressureAlert>> ELSE <<>>
        keyword  == IF GivenKeywords # <<>>
                    THEN <<KeywordAlertPrefix \o join(GivenKeywords)>> ELSE <<>>
        fired    == robocall \o pressure \o keyword
    IN  IF fired = <<>> /\ AiRisk < 20 * ONE THEN <<LowRiskAlert>> ELSE fired

\* C4: the alerts depend on ai_risk, urgency_score and the keyword list
\* only, in the order robocall (ai_risk > 85), pressure (urgency_score >
\* 75), one keyword alert listing the terms in their given order (list
\* non-empty); the reassurance alert is there iff none of these fired and
\* ai_risk < 20.  At most 3 alerts, none twice.
C4_AlertsInFixedOrder ==
    Returned =>
        /\ risk.ret.alerts = ExpectedAlerts
        /\ Len(risk.ret.alerts) <= 3
        /\ \A i, j \in 1..Len(risk.ret.alerts) :
             i # j => risk.ret.alerts[i] # risk.ret.alerts[j]

\* C4 witness: all three alerts fired, the keyword alert last with its terms
\* in the order given.
C4_Witness ==
    /\ Returned
    /\ GivenKeywords = <<"otp", "password">>
    /\ risk.ret.alerts = <<RobocallAlert, PressureAlert,
                           KeywordAlertPrefix \o "otp, password">>

\* C5: keyword_risk is min(100, 25 * hits), 0 for an empty or omitted list;
\* with ai_probability 1.0 and two hits it is 50, the 1.3 escalation is
\* applied whatever the feature object, and risk_score is at most 100.
C5_KeywordRisk ==
    Returned =>
        /\ locals.keyword_risk =
             IF Len(GivenKeywords) >= 4 THEN 100 * ONE
             ELSE 25 * ONE * Len(GivenKeywords)
        /\ risk.ret.metrics.keyword_risk * (ONE \div 10) = locals.keyword_risk
        /\ ~keywords_detected.given => locals.keyword_risk = 0
        /\ (ai_confidence = 1000 /\ Len(GivenKeywords) = 2) =>
             /\ locals.keyword_risk = 50 * ONE
             /\ locals.total_risk = Min(100 * ONE, (locals.weighted * 13) \div 10)
             /\ locals.total_risk > locals.weighted
             /\ risk.ret.risk_score <= 1000

\* C5 witness: ai_probability 1.0 with the hits otp, password, escalated and
\* still under the cap.
C5_Witness ==
    /\ Returned
    /\ ai_confidence = 1000
    /\ GivenKeywords = <<"otp", "password">>
    /\ locals.keyword_risk = 50 * ONE
    /\ locals.total_risk = (locals.weighted * 13) \div 10
    /\ locals.total_risk < 100 * ONE

\* the entries of features[lo:hi] that exist
Block(lo, hi) == lo..(Min(hi, len(audio_features)) - 1)
BlockIsNumeric(lo, hi) ==
    /\ Block(lo, hi) \cap audio_features.nonnum = {}
    /\ Block(lo, hi) \cap audio_features.nan = {}
BlockMean(lo, hi) ==
    (SumOver(audio_features.data, Block(lo, hi)) * ONE)
        \div Cardinality(Block(lo, hi))
Clamp(x) == IF x < 0 THEN 0 ELSE IF x > 100 * ONE THEN 100 * ONE ELSE x

\* C6 as stated: urgency_score is clamp(mean(energy block)*0.5 +
\* mean(spectral block)*0.02) whenever both blocks can be averaged, and 50
\* whenever they cannot (no array, a block missing or holding a non-number).
\* Feature objects with a NaN in a block are left out.
C6_AsStated ==
    (risk.called /\ audio_features.nan = {}) =>
        /\ ~risk.raised
        /\ locals.urgency_score =
             IF /\ audio_features.type = "ndarray"
                /\ Block(280, 290) # {} /\ Block(40, 45) # {}
                /\ BlockIsNumeric(280, 290) /\ BlockIsNumeric(40, 45)
             THEN Clamp((BlockMean(280, 290) * 5) \div 10
                        + (BlockMean(40, 45) * 2) \div 100)
             ELSE 50 * ONE

\* C6 amended: the mean of a block is taken only from an array longer than
\* the block's end (more than 290 entries for the energy block, more than 45
\* for the spectral block) and is 0.5 otherwise; urgency_score is the clamp
\* of energy*0.5 + spectral*0.02 over those values (0 when a mean is NaN),
\* and it is 50 exactly when the computation raises: the object is no array
\* or a block that is read holds a non-number.  analyze_risk returns a
\* complete assessment in every case.
C6_UrgencyWithDefaults ==
    risk.called =>
        LET isArray == audio_features.type = "ndarray"
            readE == isArray /\ len(audio_features) > 290
            readS == isArray /\ len(audio_features) > 45
            raises == \/ ~isArray
                      \/ readE /\ Block(280, 290) \cap audio_features.nonnum # {}
                      \/ readS /\ Block(40, 45) \cap audio_features.nonnum # {}
            isNaN == \/ readE /\ Block(280, 290) \cap audio_features.nan # {}
                     \/ readS /\ Block(40, 45) \cap audio_features.nan # {}
            energy == IF readE THEN BlockMean(280, 290) ELSE ONE \div 2
            spectral == IF readS THEN BlockMean(40, 45) ELSE ONE \div 2
        IN  /\ ~risk.raised
            /\ risk.ret.risk_level \in Levels
            /\ risk.ret.metrics.urgency_score = round1(locals.urgency_score)
            /\ locals.urgency_score =
                 IF raises THEN 50 * ONE
                 ELSE IF isNaN THEN 0
                 ELSE Clamp((energy * 5) \div 10 + (spectral * 2) \div 100)

\* C6 witness: a block holds a non-number, the call returned a complete
\* assessment with urgency 50.
C6_Witness ==
    /\ Returned
    /\ audio_features.type = "ndarray"
    /\ audio_features.nonnum # {}
    /\ urgency_try(audio_features).raises
    /\ locals.urgency_score = 50 * ONE
    /\ risk.ret.metrics.urgency_score = 500
    /\ risk.ret.risk_level \in Levels

\* C7: analyze_risk is deterministic and free of side effects: every call
\* on the caller's arguments returns what the first one returned, whatever
\* calls came in between, and no call changes the keyword list, the feature
\* object, the weights or the keyword table.
C7_DeterministicNoSideEffects ==
    /\ [](risk.called => risk = first_risk)
    /\ [][/\ weights' = weights
          /\ keywords' = keywords
          /\ audio_features' = audio_features
          /\ keywords_detected' = keywords_detected]_vars

\* C7 witness: the same arguments scored, other arguments scored, the same
\* arguments scored again with an escalated result equal to the first.
C7_Witness ==
    /\ history = <<"own", "other", "own">>
    /\ Returned
    /\ risk = first_risk
    /\ locals.total_risk > locals.weighted
    /\ weights = FraudDetector_init.weights

----------------------------------------------------------------------------
(* Properties of the service, checked under Spec *)

ModelLoaded == voice_model.bound /\ voice_model.model # "None"
LoadSucceeds ==
    /\ checkpoint.exists /\ checkpoint.readable
    /\ checkpoint.has_input_size /\ checkpoint.state_matches

SentinelTranscripts ==
    {UnintelligibleTranscript, ApiErrorTranscript, ErrorTranscript,
     "[Error: zero-size array to reduction operation maximum]",
     "[Error: Error opening file]"}

\* ai_risk as analyze_call derives it from the classification it reports
CallAiRisk(q) ==
    (IF q.classification = "AI_GENERATED" THEN q.confidence
     ELSE 1000 - q.confidence) * 100 * (ONE \div 1000)

\* C8: in analyze_call a failure of keyword detection (the temporary WAV,
\* the recogniser's request error, unintelligible audio, any other
\* exception) is recovered in place: it never ends the request, the keyword
\* list handed to scoring is empty, and a request that then succeeds
\* reports keyword_risk 0, no keyword alert, an unescalated score, no
\* keywords and a sentinel transcript.  After such a failure only the
\* classifier can still fail the request.
C8_KeywordFailureRecovered ==
    \A r \in Slots :
        LET q == req[r]
            a == q.response.fraud_analysis
        IN  (q.endpoint = "analyze_call" /\ q.kw_failed) =>
              /\ q.failed_at # "keywords"
              /\ q.keywords_detected = <<>>
              /\ q.pc = "done" =>
                   (q.response.status = "success" \/ q.failed_at = "classify")
              /\ q.response.status = "success" =>
                   /\ q.response.keywords_found = <<>>
                   /\ q.response.transcript \in SentinelTranscripts
                   /\ a.risk_level \in Levels
                   /\ a.metrics.keyword_risk = 0
                   /\ \A i \in 1..Len(a.alerts) :
                        a.alerts[i] \in {RobocallAlert, PressureAlert, LowRiskAlert}
                   /\ a.risk_score =
                        round1((CallAiRisk(q) * 5) \div 10
                               + (a.metrics.urgency_score * (ONE \div 10) * 2) \div 10)

\* C8 witness: the temporary WAV could not be written, yet the call was
\* scored as AI_GENERATED (where keywords would have escalated it) and
\* answered with success and an error transcript.
C8_Witness ==
    \E r \in Slots :
        /\ req[r].endpoint = "analyze_call"
        /\ req[r].kw_failed
        /\ ~req[r].temp_file
        /\ req[r].classification = "AI_GENERATED"
        /\ req[r].response.status = "success"
        /\ req[r].response.transcript = "[Error: Error opening file]"
        /\ req[r].response.fraud_analysis.metrics.keyword_risk = 0

\* C9: with no model loaded, a request of either endpoint that reaches
\* classification never invokes predict and is answered with success: a
\* label among AI_GENERATED and HUMAN, a confidence in the simulated range
\* 0.75..0.95 and the explanation literal that names demo mode.
C9_DemoClassification ==
    \A r \in Slots :
        LET q == req[r]
        IN  (~ModelLoaded /\ q.features.extracted /\ q.pc = "done") =>
              /\ q.predict_calls = 0
              /\ q.response.status = "success"
              /\ q.response.classification \in {"AI_GENERATED", "HUMAN"}
              /\ q.response.confidence \in 75..95
              /\ q.response.explanation = "Demo mode - model not trained yet"

\* C10: a missing checkpoint or an exception while loading it never stops
\* start-up; voice_model then stays None (no half-built model is visible)
\* and every request that reaches classification is answered in demo mode:
\* with success and without a call of predict.
C10_LoadFailureDegradesToDemo ==
    /\ startup \in {"exists", "torch_load", "build", "load_state", "bind", "serving"}
    /\ (startup = "serving" /\ ~LoadSucceeds) =>
         (~voice_model.bound /\ voice_model.model = "None")
    /\ \A r \in Slots :
         (~LoadSucceeds /\ req[r].features.extracted /\ req[r].pc = "done") =>
            /\ req[r].predict_calls = 0
            /\ req[r].response.status = "success"

\* the part of C10 about start-up alone: the global is bound only to a
\* completely loaded model, and stays None after any failure
StartupBindsOnlyLoadedModel ==
    /\ startup \in {"exists", "torch_load", "build", "load_state", "bind", "serving"}
    /\ voice_model.bound =>
         (LoadSucceeds /\ voice_model.model = "net" /\ voice_model.state_loaded)
    /\ (startup = "serving" /\ ~LoadSucceeds) => voice_model = NewVoiceDetectionModel
    /\ \A r \in Slots : req[r].pc # "idle" => startup = "serving"

----------------------------------------------------------------------------
(* Properties of AudioProcessor, checked under ComponentSpec and Spec *)

\* C11: validate_audio(buffer, max_seconds) raises exactly when the buffer
\* is empty or its sample count divided by 16000 exceeds max_seconds, and
\* returns True otherwise; at the default limit 480000 samples pass and
\* 480001 do not; the buffer is the same after the call in both outcomes.
C11_ValidateAudio ==
    validation.called =>
        LET n == validation.audio.n
            m == validation.max_length
            whole == n \div 16000
            over == whole > m \/ (whole = m /\ n % 16000 > 0)
        IN  /\ validation.raised <=> (n = 0 \/ over)
            /\ validation.ret <=> ~validation.raised
            /\ validation.audio_after = validation.audio
            /\ (m = 30 /\ n = 480000) => (validation.ret /\ ~validation.raised)
            /\ (m = 30 /\ n = 480001) => validation.raised

\* C11 witness: a buffer of exactly 30 seconds was validated at the default
\* limit and accepted
C11_Witness ==
    /\ validation.called
    /\ validation.max_length = 30
    /\ validation.audio.n = 480000
    /\ validation.ret
    /\ validation.audio_after.n = 480000

\* whether extract_features has been called in the request
ReachedExtraction(q) ==
    q.features.extracted \/ q.failed_at = "extract"
    \/ q.pc \in {"keywords", "classify", "score"}

\* C12: in both endpoints a buffer handed to extract_features is non-empty
\* and at most 480000 samples long; a request whose decoded buffer is empty
\* or longer ends in an error without extract_features, predict or
\* analyze_risk having run.
C12_ExtractedBuffersValid ==
    \A r \in Slots :
        LET q == req[r]
        IN  /\ ReachedExtraction(q) => (q.audio.n > 0 /\ q.audio.n <= 480000)
            /\ (q.audio.decoded /\ q.pc = "done"
                  /\ (q.audio.n = 0 \/ q.audio.n > 480000)) =>
                   /\ q.response.status = "error"
                   /\ ~ReachedExtraction(q)
                   /\ q.predict_calls = 0
                   /\ q.response.fraud_analysis = NoAssessment

\* the detect_voice half of C12, which the code keeps: validate_audio runs
\* between the decoder and the extractor
DetectVoiceExtractsValidBuffers ==
    \A r \in Slots :
        (req[r].endpoint = "detect_voice" /\ ReachedExtraction(req[r])) =>
            (req[r].audio.n > 0 /\ req[r].audio.n <= 480000)

\* the first decoder that can read the bytes, 6 when none can
FirstWorking(works) ==
    IF \E i \in 1..5 : Strategies[i] \in works
    THEN CHOOSE i \in 1..5 :
            /\ Strategies[i] \in works
            /\ \A j \in 1..(i - 1) : Strategies[j] \notin works
    ELSE 6

\* C13: the decoders are tried in the fixed order MP3, WAV, WebM,
\* auto-detection, librosa; one is tried only after all earlier ones
\* failed, and none after the first success; when all fail the call raises
\* one error whose message lists one reason per decoder, in that order.
C13_DecoderChain ==
    (decoding.called /\ decoding.bytes.b64_ok) =>
        LET k == FirstWorking(decoding.bytes.works)
            tried == IF k = 6 THEN 5 ELSE k
        IN  /\ decoding.attempted =
                  SubSeq(<<"MP3", "WAV", "WebM", "Auto-detect", "Librosa">>, 1, tried)
            /\ Len(decoding.errors) = (IF k = 6 THEN 5 ELSE k - 1)
            /\ \A i \in 1..Len(decoding.errors) :
                  decoding.errors[i] =
                     decoding.attempted[i] \o ": " \o FailureMessage(decoding.attempted[i])
            /\ k = 6 =>
                  /\ decoding.raised
                  /\ decoding.detail =
                        "Error processing audio: Could not decode audio. Tried formats: "
                        \o "MP3: Decoding failed. ffmpeg returned error code: 1, "
                        \o "WAV: Decoding failed. ffmpeg returned error code: 1, "
                        \o "WebM: Decoding failed. ffmpeg returned error code: 1, "
                        \o "Auto-detect: Decoding failed. ffmpeg returned error code: 1, "
                        \o "Librosa: Format not recognised"
            /\ (k < 6 /\ decoding.bytes.export_ok /\ decoding.bytes.n > 0) =>
                  (~decoding.raised /\ decoding.audio.n = decoding.bytes.n)

\* C13 witness: no decoder could read the bytes, five were tried, and the
\* call raised
C13_Witness ==
    /\ decoding.called
    /\ decoding.bytes.b64_ok
    /\ decoding.bytes.works = {}
    /\ decoding.raised
    /\ Len(decoding.attempted) = 5
    /\ Len(decoding.errors) = 5

\* a second witness of the chain: WebM was the first decoder to succeed,
\* after MP3 and WAV failed
DecodedAsWebM ==
    /\ decoding.called
    /\ ~decoding.raised
    /\ decoding.attempted = <<"MP3", "WAV", "WebM">>
    /\ Len(decoding.errors) = 2

----------------------------------------------------------------------------
(* Properties of VoiceDetectionModel, checked under ComponentSpec *)

Predicted == prediction.called /\ ~prediction.raised

\* C14: for a vector of the network's input size predict returns
\* AI_GENERATED exactly when the index of the largest softmax output is 0
\* and HUMAN exactly when it is 1, and the confidence is that largest
\* output: within [0, 1], at least 0.5, not the AI probability as such.
C14_LabelAndConfidence ==
    (prediction.called
       /\ len(prediction.features) = prediction.self.input_size) =>
        LET p == prediction.probabilities
            largest == IF p[1] > p[2] THEN p[1] ELSE p[2]
        IN  /\ ~prediction.raised
            /\ prediction.predicted \in {0, 1}
            /\ p[prediction.predicted + 1] = largest
            /\ prediction.classification = "AI_GENERATED" <=> prediction.predicted = 0
            /\ prediction.classification = "HUMAN" <=> prediction.predicted = 1
            /\ prediction.confidence = largest
            /\ prediction.confidence >= 500 /\ prediction.confidence <= 1000

\* C14 witness: the softmax output was (0.07, 0.93); predict answered HUMAN
\* with confidence 0.93
C14_Witness ==
    /\ Predicted
    /\ prediction.probabilities = <<70, 930>>
    /\ prediction.classification = "HUMAN"
    /\ prediction.confidence = 930

\* C15: predict raises, returning no label, confidence or explanation,
\* whenever the vector's length is not the network's input size: the
\* scaler raises on the scaled path, the network on the unscaled one; the
\* model object and the caller's vector are as before the call.
C15_DimensionMismatch ==
    (prediction.called
       /\ len(prediction.features) # prediction.self.input_size) =>
        /\ prediction.raised
        /\ prediction.error =
              (IF prediction.self.scaler = "None" THEN "RuntimeError" ELSE "ValueError")
        /\ prediction.classification = ""
        /\ prediction.confidence = 0
        /\ prediction.explanation = NoExplanation
        /\ prediction.self_after = prediction.self
        /\ prediction.features_after = prediction.features

\* C15 witness: a vector one entry short was given to a model with a scaler
C15_Witness ==
    /\ prediction.called
    /\ prediction.raised
    /\ prediction.self.scaler = "scaler"
    /\ prediction.self.input_size = 425
    /\ len(prediction.features) = 424
    /\ prediction.error = "ValueError"

\* the mismatch on the unscaled path
MismatchWithoutScaler ==
    /\ prediction.called
    /\ prediction.raised
    /\ prediction.self.scaler = "None"
    /\ prediction.error = "RuntimeError"

\* the entry at index i of the array the explanation is made from: the
\* caller's entry, after the scaler where the model has one; 0 when the
\* array has no such index
Seen(i) ==
    IF len(prediction.features) <= i THEN 0
    ELSE IF prediction.self.scaler = "None" THEN prediction.features.data[i]
    ELSE (prediction.features.data[i] - 200000) \div 100

Centroid == Seen(40)
Zcr == Seen(80)
PitchStd == Seen(85)

AiReasons == <<"Synthetic spectral patterns detected", "Unnatural voice transitions",
               "Robotic pitch consistency", "High AI likelihood">>
HumanReasons == <<"Natural pitch variations", "Organic spectral characteristics",
                  "Strong human voice patterns">>

\* whether rule i of the AI_GENERATED list fires
AiRuleFires(i) ==
    CASE i = 1 -> Centroid > 200000       \* centroid > 2000
      [] i = 2 -> Zcr < 5                 \* ZCR < 0.05
      [] i = 3 -> PitchStd < 2000         \* pitch_std < 20
      [] i = 4 -> prediction.confidence > 900

\* whether rule i of the HUMAN list fires
HumanRuleFires(i) ==
    CASE i = 1 -> PitchStd > 5000         \* pitch_std > 50
      [] i = 2 -> TRUE
      [] i = 3 -> prediction.confidence > 800

RECURSIVE Fired(_, _, _)
Fired(names, fires(_), i) ==
    IF i > Len(names) THEN <<>>
    ELSE (IF fires(i) THEN <<names[i]>> ELSE <<>>) \o Fired(names, fires, i + 1)

Range(seq) == {seq[i] : i \in 1..Len(seq)}

\* C16: for AI_GENERATED the explanation lists exactly the rules that
\* fire, in the order centroid > 2000, ZCR < 0.05, pitch_std < 20,
\* confidence > 0.9; with confidence above 0.9 the high-AI-likelihood
\* reason is there, as the last entry.
C16_AiExplanation ==
    (Predicted /\ prediction.classification = "AI_GENERATED") =>
        LET fired == Fired(AiReasons, AiRuleFires, 1)
            reasons == prediction.explanation.reasons
        IN  /\ fired # <<>> => reasons = fired
            /\ prediction.explanation.text = join_reasons(reasons)
            /\ prediction.confidence > 900 =>
                  reasons[Len(reasons)] = "High AI likelihood"

\* C16 witness: AI_GENERATED at confidence 0.93 on a vector whose pitch
\* entry alone is under its threshold
C16_Witness ==
    /\ Predicted
    /\ prediction.classification = "AI_GENERATED"
    /\ prediction.confidence = 930
    /\ prediction.explanation.reasons =
          <<"Robotic pitch consistency", "High AI likelihood">>
    /\ prediction.explanation.text = "Robotic pitch consistency; High AI likelihood"

\* C17: for HUMAN the explanation always has the organic reason, preceded
\* by the natural-pitch reason exactly when pitch_std > 50 and followed by
\* the strong-human reason exactly when confidence > 0.8; no reason of one
\* label appears under the other label.
C17_HumanExplanation ==
    Predicted =>
        LET reasons == prediction.explanation.reasons
        IN  /\ prediction.classification = "HUMAN" =>
                  /\ reasons = Fired(HumanReasons, HumanRuleFires, 1)
                  /\ Range(reasons) \cap Range(AiReasons) = {}
            /\ prediction.classification = "AI_GENERATED" =>
                  Range(reasons) \cap Range(HumanReasons) = {}

\* C17 witness: HUMAN at confidence 0.85 with a pitch entry above 50: all
\* three reasons
C17_Witness ==
    /\ Predicted
    /\ prediction.classification = "HUMAN"
    /\ prediction.explanation.text =
          "Natural pitch variations; Organic spectral characteristics; "
          \o "Strong human voice patterns"

\* the explanation is the bare confidence
IsFallback ==
    \E i \in 1..Len(prediction.explanation.reasons) :
        prediction.explanation.reasons[i] \notin Range(AiReasons) \cup Range(HumanReasons)

\* C18: the explanation is never empty; it is the bare confidence exactly
\* when no rule fired, that is for AI_GENERATED with centroid <= 2000,
\* ZCR >= 0.05, pitch_std >= 20 and confidence <= 0.9; the bare
\* confidence is then the only entry; HUMAN never gets it.
C18_ExplanationNeverEmpty ==
    Predicted =>
        LET reasons == prediction.explanation.reasons
        IN  /\ reasons # <<>>
            /\ prediction.explanation.text # ""
            /\ IsFallback <=>
                  /\ prediction.classification = "AI_GENERATED"
                  /\ Centroid <= 200000 /\ Zcr >= 5 /\ PitchStd >= 2000
                  /\ prediction.confidence <= 900
            /\ IsFallback => Len(reasons) = 1
            /\ prediction.classification = "HUMAN" => ~IsFallback

\* C18 witness: AI_GENERATED at confidence 0.85 with no rule firing
C18_Witness ==
    /\ Predicted
    /\ prediction.classification = "AI_GENERATED"
    /\ prediction.explanation.reasons = <<"Model confidence: 85.00%">>

----------------------------------------------------------------------------
(* Properties of AudioFeatureExtractor, checked under ComponentSpec *)

Extracted == extraction.called /\ ~extraction.raised

\* the value the extractor computed under a key
Named(name) ==
    IF name \in PitchNames
    THEN pitch_features(extraction.audio, extraction.signal)[name]
    ELSE extraction.signal.value[name]

SpectralShapeNames ==
    {"spectral_centroid_mean", "spectral_centroid_std", "spectral_rolloff_mean",
     "spectral_rolloff_std", "spectral_bandwidth_mean", "spectral_bandwidth_std",
     "spectral_contrast_mean", "spectral_flatness_mean", "spectral_flatness_std"}

\* C19: on the vector extract_features returns, the explanation's centroid,
\* ZCR and pitch_std inputs are the extractor's spectral_centroid_mean,
\* zcr_mean and pitch_std, and the urgency score's energy block and
\* spectral block are the extractor's rms and spectral-shape entries.
C19_HeuristicsReadNamedFeatures ==
    Extracted =>
        LET read == _generate_explanation(extraction.features, "AI_GENERATED", 0).read
        IN  /\ read.spectral_centroid = Named("spectral_centroid_mean")
            /\ read.zcr = Named("zcr_mean")
            /\ read.pitch_std = Named("pitch_std")
            /\ \A i \in 280..289 : name_at[i] \in {"rms_mean", "rms_std"}
            /\ \A i \in 40..44 : name_at[i] \in SpectralShapeNames

\* what the heuristics read instead: entries of the MFCC and mel blocks
HeuristicsReadOtherBlocks ==
    /\ name_at[40] = "mfcc_std"
    /\ name_at[80] = "mfcc_delta" /\ name_at[85] = "mfcc_delta"
    /\ \A i \in 40..44 : name_at[i] = "mfcc_std"
    /\ \A i \in 280..289 : name_at[i] = "mel_spec_mean"
    /\ Extracted =>
          /\ extraction.features.data[120] = Named("spectral_centroid_mean")
          /\ extraction.features.data[135] = Named("zcr_mean")
          /\ extraction.features.data[140] = Named("pitch_std")
          /\ extraction.features.data[137] = Named("rms_mean")

\* C20: for every non-empty buffer of at most 30 seconds extract_features
\* returns a vector of 425 entries, the named blocks in the same order,
\* whatever the number of frames and whether or not a frame is voiced.
C20_FixedLengthVector ==
    (extraction.called
       /\ extraction.audio.n > 0 /\ extraction.audio.n <= 480000) =>
        /\ ~extraction.raised
        /\ len(extraction.features) = 425
        /\ \A i \in 0..424 : extraction.features.data[i] = Named(name_at[i])

\* the part of C20 the code keeps: a vector that is returned has 425
\* entries in key order, voiced or not; it is returned for every buffer of
\* at least 9 frames
ExtractedVectorsHaveFixedLayout ==
    /\ flat_length = 425
    /\ Extracted =>
          /\ len(extraction.features) = 425
          /\ \A i \in 0..424 : extraction.features.data[i] = Named(name_at[i])
    /\ (extraction.called /\ extraction.audio.n >= 4096) => ~extraction.raised

\* the frames of the buffer given to extract_features whose picked pitch is > 0
VoicedFrames ==
    {t \in 0..(frames(extraction.audio) - 1) : picked(extraction.signal, t) > 0}

\* the picked pitch in every frame, 0 counted for the unvoiced ones
PitchOrZero ==
    [t \in 1..frames(extraction.audio) |->
        IF (t - 1) \in VoicedFrames THEN picked(extraction.signal, t - 1) ELSE 0]

\* the entry of the returned vector under a scalar key
Entry(name) ==
    extraction.features.data[
        CHOOSE i \in 0..(flat_length - 1) : name_at[i] = name]

\* the four pitch entries are the mean, the standard deviation, the least
\* and the greatest of the pitches of the voiced frames (in hundredths of a
\* Hz, rounded down), and four zeros when there is none
PitchEntriesAggregateVoicedFrames ==
    LET n == Cardinality(VoicedFrames)
        total == SumRange(PitchOrZero, 1, frames(extraction.audio))
        squares == SumRange([t \in DOMAIN PitchOrZero |-> PitchOrZero[t] * PitchOrZero[t]],
                            1, frames(extraction.audio))
    IN  IF n = 0
        THEN \A name \in PitchNames : Entry(name) = 0
        ELSE /\ n * Entry("pitch_mean") <= 1000 * total
             /\ 1000 * total < n * (Entry("pitch_mean") + 1)
             /\ \E r \in 0..30000 :
                   /\ r * r <= n * squares - total * total
                   /\ n * squares - total * total < (r + 1) * (r + 1)
                   /\ n * Entry("pitch_std") <= 1000 * r
                   /\ 1000 * r < n * (Entry("pitch_std") + 1)
             /\ \E t \in VoicedFrames :
                   Entry("pitch_min") = 1000 * picked(extraction.signal, t)
             /\ \A t \in VoicedFrames :
                   Entry("pitch_min") <= 1000 * picked(extraction.signal, t)
             /\ \E t \in VoicedFrames :
                   Entry("pitch_max") = 1000 * picked(extraction.signal, t)
             /\ \A t \in VoicedFrames :
                   Entry("pitch_max") >= 1000 * picked(extraction.signal, t)

\* C21: pitch_mean, pitch_std, pitch_min and pitch_max are the mean, std,
\* min and max over exactly the frames whose picked pitch is > 0; when no
\* frame of a (non-empty) buffer is voiced, extraction still succeeds with
\* a vector of 425 entries whose four pitch entries are exactly 0.
C21_PitchAggregation ==
    (extraction.called /\ extraction.audio.n > 0) =>
        /\ Extracted => PitchEntriesAggregateVoicedFrames
        /\ VoicedFrames = {} =>
              /\ ~extraction.raised
              /\ len(extraction.features) = 425
              /\ \A name \in PitchNames : Entry(name) = 0

\* the part of C21 the code keeps: whenever a vector is returned its pitch
\* entries aggregate the voiced frames only, and a buffer of at least 9
\* frames none of which is voiced yields the full vector with four zeros
PitchAggregatesOverVoicedFrames ==
    /\ Extracted => PitchEntriesAggregateVoicedFrames
    /\ (extraction.called /\ extraction.audio.n >= 4096 /\ VoicedFrames = {}) =>
          /\ ~extraction.raised
          /\ len(extraction.features) = 425
          /\ \A name \in PitchNames : Entry(name) = 0

\* an extraction in which some frames are voiced and some are not
SomeFramesVoiced ==
    /\ Extracted
    /\ VoicedFrames # {}
    /\ Cardinality(VoicedFrames) < frames(extraction.audio)
    /\ Entry("pitch_min") < Entry("pitch_mean")
    /\ Entry("pitch_std") > 0

\* a silent buffer of at least 9 frames, extracted
SilentBufferExtracted ==
    /\ Extracted
    /\ VoicedFrames = {}
    /\ \A name \in PitchNames : Entry(name) = 0

----------------------------------------------------------------------------
(* The two code paths of predict, checked under ComponentSpec *)

\* the raw values at the three indices the explanation reads
Raw(i) == IF len(prediction.features) <= i THEN 0 ELSE prediction.features.data[i]

\* C30: the explanation thresholds (2000 Hz, 0.05, 20 Hz, 50 Hz) are
\* applied to the raw extracted values on both code paths: for the same raw
\* vector, label and confidence predict yields the same explanation
\* whether or not a scaler is bundled with the checkpoint.
C30_ExplanationIgnoresScaler ==
    Predicted =>
        /\ prediction.explanation.read =
              [spectral_centroid |-> Raw(40), zcr |-> Raw(80), pitch_std |-> Raw(85)]
        /\ prediction.explanation.text =
              _generate_explanation(prediction.features, prediction.classification,
                                    prediction.confidence).text

\* what predict does: without a scaler the thresholds meet the raw
\* values, with a scaler the standardised ones
ExplanationReadsWhatTheNetworkReads ==
    Predicted =>
        /\ prediction.self.scaler = "None" =>
              prediction.explanation.read =
                 [spectral_centroid |-> Raw(40), zcr |-> Raw(80), pitch_std |-> Raw(85)]
        /\ prediction.self.scaler # "None" =>
              prediction.explanation =
                 _generate_explanation(
                    transform(StandardScaler(prediction.self), prediction.features).features,
                    prediction.classification, prediction.confidence)

\* a vector explained differently because a scaler is bundled: its entry
\* 40 is above 2000 Hz, yet the synthetic-spectrum reason is missing
ScalerChangesExplanation ==
    /\ Predicted
    /\ prediction.self.scaler # "None"
    /\ prediction.classification = "AI_GENERATED"
    /\ Raw(40) > 200000
    /\ \A i \in 1..Len(prediction.explanation.reasons) :
          prediction.explanation.reasons[i] # SyntheticReason

----------------------------------------------------------------------------
(* Properties of the service with two requests in flight, checked under    *)
(* ConcurrentSpec *)

\* the global voice_model as the import of app.py leaves it: the loaded
\* wrapper when every step of load_model succeeded, else the unbound name's
\* initial None
VoiceModelAtStartup ==
    IF /\ checkpoint.exists /\ checkpoint.readable
       /\ checkpoint.has_input_size /\ checkpoint.state_matches
    THEN [bound |-> TRUE, model |-> "net",
          scaler |-> IF checkpoint.has_scaler THEN "scaler" ELSE "None",
          input_size |-> checkpoint.input_size, state_loaded |-> TRUE]
    ELSE NewVoiceDetectionModel

\* the response of detect_voice to what a request is given, served with
\* nothing else in flight: the handler run from its first line to its last
DetectVoiceAlone(g) ==
    LET v == validate_audio(g.decoded.audio, MaxLengthSeconds)
        p == predict(VoiceModelAtStartup, g.extracted.features, g.probabilities)
    IN  IF ~g.key_ok THEN ErrorResponse(401, "Invalid API key")
        ELSE IF g.decoded.raised THEN ErrorResponse(400, g.decoded.detail)
        ELSE IF v.raised THEN ErrorResponse(400, v.detail)
        ELSE IF g.extracted.raised
        THEN ErrorResponse(500, "Internal server error: " \o g.extracted.detail)
        ELSE IF "model" \notin ModuleGlobals
        THEN ErrorResponse(500, "Internal server error: name 'model' is not defined")
        ELSE IF VoiceModelAtStartup.model = "None"
        THEN [NoResponse EXCEPT !.status = "success", !.code = 200,
                                !.classification = g.simulated.label,
                                !.confidence = round2(g.simulated.confidence),
                                !.explanation = "Demo mode - model not trained yet"]
        ELSE IF p.raised
        THEN IF p.error = "ValueError" THEN ErrorResponse(400, "size mismatch")
             ELSE ErrorResponse(500, "Internal server error: size mismatch")
        ELSE [NoResponse EXCEPT !.status = "success", !.code = 200,
                                !.classification = p.classification,
                                !.confidence = round2(p.confidence),
                                !.explanation = p.explanation.text]

\* the same for analyze_call, on the detector as FraudDetector() made it
AnalyzeCallAlone(g) ==
    LET vm == VoiceModelAtStartup
        k == keyword_detection(FraudDetector_init, g.decoded.audio, g.write_ok, g.asr)
        loaded == vm.bound /\ vm.model # "None"
        p == predict(vm, g.extracted.features, g.probabilities)
        classification == IF loaded THEN p.classification ELSE "AI_GENERATED"
        confidence == IF loaded THEN p.confidence ELSE 850
        out == analyze_risk(FraudDetector_init,
                            ai_prob(classification, confidence),
                            mock_features(classification),
                            [given |-> TRUE, list |-> k.keywords_detected])
    IN  IF ~g.key_ok THEN ErrorResponse(401, "Invalid API key")
        ELSE IF g.decoded.raised THEN ErrorResponse(500, g.decoded.detail)
        ELSE IF g.extracted.raised THEN ErrorResponse(500, g.extracted.detail)
        ELSE IF k.raised THEN ErrorResponse(500, k.detail)
        ELSE IF loaded /\ p.raised THEN ErrorResponse(500, "size mismatch")
        ELSE IF out.raised THEN ErrorResponse(500, "risk scoring failed")
        ELSE [NoResponse EXCEPT !.status = "success", !.code = 200,
                                !.classification = classification,
                                !.confidence = round2(confidence),
                                !.fraud_analysis = out.ret,
                                !.keywords_found = out.keywords_detected.list,
                                !.transcript = k.transcript]

\* after start-up the shared objects are what start-up made them
SharedStateAsLoaded ==
    /\ voice_model = VoiceModelAtStartup
    /\ weights = FraudDetector_init.weights
    /\ keywords = FraudDetector_init.keywords

\* every response given is the one the request gets when served alone
ResponsesAsAlone ==
    \A r \in Slots :
        req[r].pc = "done" =>
            req[r].response = IF req[r].endpoint = "detect_voice"
                              THEN DetectVoiceAlone(req[r].given)
                              ELSE AnalyzeCallAlone(req[r].given)

\* a step of the request in slot r writes that slot's locals and temporary
\* file and nothing else
StepOf(r) ==
    /\ req'[r] # req[r]
    /\ \A q \in Slots \ {r} : req'[q] = req[q]
    /\ \A path \in (disk' \ disk) \cup (disk \ disk') : path[1] = r
    /\ UNCHANGED <<checkpoint, startup, loading, voice_model, clients,
                   weights, keywords>>

\* C22: under any interleaving of the steps of concurrent requests, no
\* request step writes the loaded classifier or any other state shared
\* between requests after start-up, and each response equals the response
\* the request gets when it runs alone on the same input and the same
\* collaborator outcomes.
C22_RequestsDoNotInterfere ==
    /\ [](startup = "serving" => SharedStateAsLoaded /\ ResponsesAsAlone)
    /\ [][startup = "serving" => \E r \in Slots : StepOf(r)]_vars

\* C22 witness: two call analyses in flight at once, each with its
\* temporary file written and its prediction made on the shared model
C22_Witness ==
    /\ Cardinality(clients) > 1
    /\ \A r \in Slots :
          /\ req[r].endpoint = "analyze_call"
          /\ req[r].pc = "score"
          /\ req[r].predict_calls = 1
          /\ TempPath(r) \in disk
    /\ req["r1"].classification # req["r2"].classification

----------------------------------------------------------------------------
(* Properties of the two endpoints, checked under Spec *)

\* C23: every authenticated voice-detection request whose audio decodes,
\* validates and yields features ends in a success response carrying a
\* classification among AI_GENERATED and HUMAN, a confidenceScore in [0,1]
\* and an explanation; an error response occurs only when one of those
\* stages or the prediction itself fails.
C23_DetectVoiceSucceeds ==
    \A r \in Slots :
        LET q == req[r]
        IN  (q.endpoint = "detect_voice" /\ q.pc = "done" /\ q.given.key_ok) =>
              /\ q.features.extracted =>
                    \/ /\ q.response.status = "success"
                       /\ q.response.code = 200
                       /\ q.response.classification \in {"AI_GENERATED", "HUMAN"}
                       /\ q.response.confidence \in 0..100
                       /\ q.response.explanation # ""
                    \/ /\ q.response.status = "error"
                       /\ q.predict_calls = 1
              /\ q.response.status = "error" =>
                    \/ q.failed_at \in {"decode", "validate", "extract"}
                    \/ q.predict_calls = 1

\* what detect_voice does instead: a request that yields features is
\* answered with 500 before predict or the simulation is reached
DetectVoiceFailsAfterExtraction ==
    \A r \in Slots :
        LET q == req[r]
        IN  (q.endpoint = "detect_voice" /\ q.pc = "done" /\ q.features.extracted) =>
              /\ q.response.code = 500
              /\ q.failed_at = "classify"
              /\ q.predict_calls = 0

\* a call analysis answered with success
CallAnswered(q) ==
    q.endpoint = "analyze_call" /\ q.pc = "done" /\ q.response.status = "success"

\* the urgency the scorer finds for a label, in 1/ONE
LabelUrgency(classification) ==
    IF classification = "AI_GENERATED" THEN 12 * ONE ELSE 0

\* the weighted sum on the call's AI risk, its label's urgency and its keywords
CallWeightedSum(q) ==
    (CallAiRisk(q) * 5) \div 10 + (LabelUrgency(q.classification) * 2) \div 10
    + (Min(100 * ONE, 25 * ONE * Len(q.response.keywords_found)) * 3) \div 10

\* C24: in the call-analysis path the fraud assessment does not depend on
\* the extracted feature vector: two requests with the same classification,
\* confidence and keyword list receive identical fraud_analysis whatever
\* their vectors are; urgency_score is one of two constants fixed by the
\* label (12.0 for AI_GENERATED, 0.0 for HUMAN), the pressure-tactic alert
\* never fires, and escalation is decided by ai_risk and keywords alone.
C24_AssessmentIgnoresFeatures ==
    /\ \A r, s \in Slots :
          (/\ CallAnswered(req[r]) /\ CallAnswered(req[s])
           /\ req[r].classification = req[s].classification
           /\ req[r].confidence = req[s].confidence
           /\ req[r].response.keywords_found = req[s].response.keywords_found) =>
              req[r].response.fraud_analysis = req[s].response.fraud_analysis
    /\ \A r \in Slots :
          LET q == req[r]
              a == q.response.fraud_analysis
          IN  CallAnswered(q) =>
                /\ a.metrics.urgency_score =
                      IF q.classification = "AI_GENERATED" THEN 120 ELSE 0
                /\ \A i \in 1..Len(a.alerts) : a.alerts[i] # PressureAlert
                /\ a.risk_score =
                      round1(IF q.response.keywords_found # <<>>
                                /\ CallAiRisk(q) > 50 * ONE
                             THEN Min(100 * ONE, (CallWeightedSum(q) * 13) \div 10)
                             ELSE CallWeightedSum(q))

\* C24 witness: two calls with different feature vectors, both classified
\* AI_GENERATED at 0.9 with the keyword otp, answered with the same
\* escalated assessment
C24_Witness ==
    /\ CallAnswered(req["r1"]) /\ CallAnswered(req["r2"])
    /\ req["r1"].features.vec # req["r2"].features.vec
    /\ req["r1"].features.extracted /\ req["r2"].features.extracted
    /\ \A r \in Slots :
          /\ req[r].classification = "AI_GENERATED"
          /\ req[r].confidence = 900
          /\ req[r].response.keywords_found = <<"otp">>
    /\ req["r1"].response.fraud_analysis = req["r2"].response.fraud_analysis
    /\ req["r1"].response.fraud_analysis.metrics.urgency_score = 120

\* C26: after a call-analysis request completes, by success or by any
\* failure at any step, no temporary WAV file created on behalf of that
\* request still exists on disk.
C26_NoTempFileLeft ==
    \A r \in Slots :
        (req[r].endpoint = "analyze_call" /\ req[r].pc = "done") =>
            TempPath(r) \notin disk

\* a completed call analysis whose file was created but never written
TempFileLeakedByFailedWrite ==
    \E r \in Slots :
        /\ req[r].endpoint = "analyze_call" /\ req[r].pc = "done"
        /\ req[r].response.status = "success"
        /\ ~req[r].temp_file
        /\ TempPath(r) \in disk

\* a completed call analysis whose file os.remove could not delete
TempFileLeftByFailedRemove ==
    \E r \in Slots :
        /\ req[r].endpoint = "analyze_call" /\ req[r].pc = "done"
        /\ req[r].temp_file
        /\ TempPath(r) \in disk

\* C29: in the call-analysis path with a loaded model, a call classified
\* HUMAN is scored with ai_probability = 1 - confidence <= 0.5, so it never
\* receives the 1.3x escalation, never gets the robocall alert and never
\* reaches CRITICAL, however many keywords were detected; a call
\* classified AI_GENERATED is scored with ai_probability = confidence.
C29_HumanCallsNeverEscalate ==
    \A r \in Slots :
        LET q == req[r]
            a == q.response.fraud_analysis
        IN  (CallAnswered(q) /\ q.predict_calls = 1) =>
              /\ q.classification = "HUMAN" =>
                    /\ a.metrics.ai_probability = 1000 - q.confidence
                    /\ a.metrics.ai_probability <= 500
                    /\ a.risk_score = round1(CallWeightedSum(q))
                    /\ \A i \in 1..Len(a.alerts) : a.alerts[i] # RobocallAlert
                    /\ a.risk_level # "CRITICAL"
              /\ q.classification = "AI_GENERATED" =>
                    a.metrics.ai_probability = q.confidence

\* C29 witness: a call classified HUMAN at 0.93 by the loaded model with
\* two keywords heard, scored on AI probability 0.07 without escalation
C29_Witness ==
    \E r \in Slots :
        LET q == req[r]
        IN  /\ CallAnswered(q) /\ q.predict_calls = 1
            /\ q.classification = "HUMAN" /\ q.confidence = 930
            /\ Len(q.response.keywords_found) = 2
            /\ q.response.fraud_analysis.metrics.ai_probability = 70
            /\ q.response.fraud_analysis.risk_score = round1(CallWeightedSum(q))

----------------------------------------------------------------------------
(* Further properties of FraudDetector.analyze_risk, checked under RiskSpec *)

\* the reported risk_score, in 1/ONE
ReportedScore == risk.ret.risk_score * (ONE \div 10)

\* C25 as stated: risk_level always equals the level that the thresholds
\* (>75, >50, >25) assign to the rounded risk_score reported in the same
\* assessment.
C25_LevelAgreesWithScore ==
    Returned => risk.ret.risk_level = LevelOf(ReportedScore)

\* C25, amended: risk_level is the level of the unrounded total, of which
\* risk_score is the rounding to one decimal (at most 0.05 away); the two
\* disagree exactly when the total lies above a threshold by less than
\* the rounding, and the level reported is then the higher one.
C25_LevelOfUnroundedTotal ==
    Returned =>
        /\ risk.ret.risk_level = LevelOf(locals.total_risk)
        /\ 2 * (ReportedScore - locals.total_risk) <= ONE \div 10
        /\ 2 * (locals.total_risk - ReportedScore) <= ONE \div 10
        /\ risk.ret.risk_level # LevelOf(ReportedScore) <=>
              \E t \in {25, 50, 75} :
                 /\ ReportedScore = t * ONE
                 /\ locals.total_risk > t * ONE
        /\ \A t \in {25, 50, 75} :
              (ReportedScore = t * ONE /\ locals.total_risk > t * ONE) =>
                  risk.ret.risk_level = LevelOf((t + 1) * ONE)

\* C25 witness: AI probability 0.5, no keywords, urgency 0.2: the total is
\* 25.04, reported as risk_score 25.0 with risk_level MEDIUM
C25_Witness ==
    /\ Returned
    /\ locals.total_risk = 25 * ONE + 4 * (ONE \div 100)
    /\ risk.ret.risk_score = 250
    /\ risk.ret.risk_level = "MEDIUM"

\* the alerts of the latest assessment
Alerts == {risk.ret.alerts[i] : i \in 1..Len(risk.ret.alerts)}

\* C27: for ai_probability in [0,1] a risk_level of CRITICAL is reached
\* only with a non-empty keyword list, so every CRITICAL assessment carries
\* the keyword alert; without keywords the total never exceeds 70, whatever
\* the AI probability and the urgency are.
C27_CriticalNeedsKeywords ==
    (Returned /\ ai_confidence \in 0..1000) =>
        /\ risk.ret.risk_level = "CRITICAL" =>
              /\ GivenKeywords # <<>>
              /\ (KeywordAlertPrefix \o join(GivenKeywords)) \in Alerts
        /\ GivenKeywords = <<>> =>
              /\ locals.total_risk <= 70 * ONE
              /\ risk.ret.risk_score <= 700
              /\ risk.ret.risk_level \in {"LOW", "MEDIUM", "HIGH"}

\* C27 witness: a CRITICAL assessment on a single keyword, with its alert
C27_Witness ==
    /\ Returned
    /\ risk.ret.risk_level = "CRITICAL"
    /\ Len(GivenKeywords) = 1
    /\ (KeywordAlertPrefix \o GivenKeywords[1]) \in Alerts

\* the most a call without keywords scores: AI probability 1 and urgency
\* 100 give exactly 70, HIGH
HighestTotalWithoutKeywords ==
    /\ Returned
    /\ GivenKeywords = <<>>
    /\ locals.ai_risk = 100 * ONE /\ locals.urgency_score = 100 * ONE
    /\ locals.total_risk = 70 * ONE
    /\ risk.ret.risk_level = "HIGH"

\* C28: for ai_probability in [0,1], whenever the low-risk reassurance is
\* among the alerts it is the only alert and the risk_level of the same
\* assessment is LOW; it never accompanies MEDIUM, HIGH or CRITICAL.
C28_ReassuranceOnlyAtLowRisk ==
    (Returned /\ ai_confidence \in 0..1000 /\ LowRiskAlert \in Alerts) =>
        /\ risk.ret.alerts = <<LowRiskAlert>>
        /\ risk.ret.risk_level = "LOW"
        /\ locals.total_risk < 25 * ONE

\* C28 witness: the reassurance given at AI probability 0.199 and urgency
\* 75, a total of 24.95
C28_Witness ==
    /\ Returned
    /\ risk.ret.alerts = <<LowRiskAlert>>
    /\ locals.urgency_score = 75 * ONE
    /\ locals.total_risk > 24 * ONE
    /\ risk.ret.risk_level = "LOW"

====
